---- MODULE Spec2Model ----
(***************************************************************************)
(* Model of the matchete resemblance engine: the Assessor of               *)
(* src/assessor.rs (dimensions, profile, viable, champion, shortlist,      *)
(* constrain) and the Matcher / MultiMatcher of src/matcher.rs.            *)
(*                                                                         *)
(* f64 scores are modelled as exact rationals [num, den] in lowest terms;  *)
(* a resembler's score is a multiple of 1/Scale.  Queries and candidates   *)
(* are opaque to the engine: a candidate is identified by what the leaf    *)
(* capabilities answer for it (the query is fixed).                        *)
(***************************************************************************)
EXTENDS Integers, Sequences, FiniteSets, TLC

\* ------------------------------------------------------------------ bounds
\* Resolution of leaf scores: a leaf answers k/Scale, k in 0..Scale.
Scale == 2
\* Longest dimension / metric list of an engine.
MaxDims == 2
\* Largest weight of a dimension / metric.
MaxWeight == 2
\* Longest candidate list handed to a ranking operation.
MaxLen == 2
\* Largest cap / limit handed to constrain / find_matches.
MaxCap == 2
\* Most sub-matchers of a MultiMatcher.
MaxMatchers == 2
\* Most conditional thresholds given to a MatcherBuilder.
MaxConditions == 1

\* --------------------------------------------------------------- rationals
RECURSIVE GCD(_, _)
GCD(a, b) == IF b = 0 THEN a ELSE GCD(b, a % b)

Abs(x) == IF x < 0 THEN -x ELSE x
Min(a, b) == IF a < b THEN a ELSE b

\* The f64 value n/d (d > 0), in lowest terms so that = is numeric equality.
Rat(n, d) ==
    LET g == GCD(Abs(n), d)
    IN  [num |-> n \div g, den |-> d \div g]

Zero == Rat(0, 1)
One == Rat(1, 1)
MinusOne == Rat(-1, 1)

RatAdd(a, b) == Rat(a.num * b.den + b.num * a.den, a.den * b.den)
RatMul(a, b) == Rat(a.num * b.num, a.den * b.den)
\* a / b for b > 0
RatDiv(a, b) == Rat(a.num * b.den, a.den * b.num)
RatGe(a, b) == a.num * b.den >= b.num * a.den
RatGt(a, b) == a.num * b.den > b.num * a.den

RECURSIVE RatSum(_)
RatSum(s) == IF s = <<>> THEN Zero ELSE RatAdd(Head(s), RatSum(Tail(s)))

\* f64::INFINITY: greater than every n/d under RatGe / RatGt.
Infinity == [num |-> 1, den |-> 0]

\* f64::min, f64::max
RatMin(a, b) == IF RatGt(a, b) THEN b ELSE a
RatMax(a, b) == IF RatGt(b, a) THEN b ELSE a

\* Iterator::fold(init, f64::min) and Iterator::fold(init, f64::max)
RECURSIVE FoldMin(_, _)
FoldMin(init, s) == IF s = <<>> THEN init ELSE FoldMin(RatMin(init, Head(s)), Tail(s))

RECURSIVE FoldMax(_, _)
FoldMax(init, s) == IF s = <<>> THEN init ELSE FoldMax(RatMax(init, Head(s)), Tail(s))

\* Iterator::product: 1.0 for no element.
RECURSIVE RatProduct(_)
RatProduct(s) == IF s = <<>> THEN One ELSE RatMul(Head(s), RatProduct(Tail(s)))

\* ------------------------------------------------------------- Resemblance
Perfect == [tag |-> "Perfect"]
Disparity == [tag |-> "Disparity"]
Partial(f) == [tag |-> "Partial", f |-> f]

\* impl From<f64> for Resemblance
FromF64(f) ==
    IF f = Zero THEN Disparity
    ELSE IF f = One THEN Perfect
    ELSE Partial(f)

\* Resemblance::to_f64
ToF64(r) ==
    CASE r.tag = "Disparity" -> Zero
      [] r.tag = "Perfect" -> One
      [] r.tag = "Partial" -> r.f

\* Option / Result
None == [tag |-> "None"]
Some(x) == [tag |-> "Some", val |-> x]
Ok(x) == [tag |-> "Ok", val |-> x]
Err(e) == [tag |-> "Err", err |-> e]

\* ------------------------------------------------------ leaf capabilities
\* The query is opaque and fixed.
Query == "q"

\* A candidate is what the leaves answer for it: g is the graded leaf's
\* score in units of 1/Scale (-1: input the graded leaf cannot score), x
\* says whether the exact leaf takes it for the query itself (which the
\* graded leaf then scores 1, when it can score it).  The strict leaf is an
\* exact leaf that rejects the input the graded leaf cannot score, with an
\* error of its own.
Candidates == {c \in [g : -1 .. Scale, x : BOOLEAN] : c.x => c.g \in {-1, Scale}}

ResemblerKinds == {"graded", "exact", "strict"}

\* Resemblers that are themselves a Blend or a Union of leaf resemblers,
\* named by their make-up.
NestedKinds ==
    {"blend(graded,strict)", "blend(strict,graded)",
     "union(graded,strict)", "union(exact,strict,graded)"}

RECURSIVE NestedResemblance(_, _, _)

\* trait Resembler: resemblance(query, candidate) -> Result<Resemblance, Error>
Resemble(resembler, query, candidate) ==
    CASE resembler = "graded" ->
            IF candidate.g < 0 THEN Err("malformed")
            ELSE Ok(FromF64(Rat(candidate.g, Scale)))
      [] resembler = "exact" ->
            Ok(IF candidate.x THEN Perfect ELSE Disparity)
      [] resembler = "strict" ->
            IF candidate.g < 0 THEN Err("rejected")
            ELSE Ok(IF candidate.x THEN Perfect ELSE Disparity)
      [] resembler \in NestedKinds ->
            NestedResemblance(resembler, query, candidate)

\* --------------------------------------------------------------- Dimension
\* Dimension::new
DimensionNew(resembler, weight) ==
    [resembler |-> resembler, weight |-> weight, resemblance |-> Disparity,
     contribution |-> Zero, error |-> None]

\* Dimension::assess, r being what the resembler returned.
AssessWith(self, r) ==
    IF r.tag = "Ok"
    THEN [self EXCEPT !.resemblance = r.val,
                      !.contribution = RatMul(ToF64(r.val), Rat(self.weight, 1)),
                      !.error = None]
    ELSE [self EXCEPT !.resemblance = Disparity,
                      !.contribution = Zero,
                      !.error = Some(r.err)]

Assess(self, query, candidate) ==
    AssessWith(self, Resemble(self.resembler, query, candidate))

\* ------------------------------------------------------------------- Blend
Blenders == {"Weighted", "Minimum", "Maximum", "Product"}

\* Blend::weighted / minimum / maximum / product
BlendNew(dimensions, blender) == [dimensions |-> dimensions, blender |-> blender]

Products(resemblances, weights) ==
    [i \in 1 .. Len(resemblances) |-> RatMul(resemblances[i], weights[i])]

\* Mutant of WeightedMean: the guard on the divisor is left out, and the
\* mean over no weight is taken for a full score.
WeightedMeanUnguarded(total_contribution, total_weight) ==
    IF total_weight = Zero THEN One ELSE RatDiv(total_contribution, total_weight)

\* if total_weight > 0.0 { total_contribution / total_weight } else { 0.0 }
WeightedMean(total_contribution, total_weight) ==
    IF RatGt(total_weight, Zero) THEN RatDiv(total_contribution, total_weight)
    ELSE Zero

\* Mutant of BlendCompute: every blender takes the weighted mean.
BlendComputeAllWeighted(blender, resemblances, weights) ==
    WeightedMean(RatSum(Products(resemblances, weights)), RatSum(weights))

\* Blend::compute
BlendCompute(blender, resemblances, weights) ==
    CASE blender = "Weighted" ->
            WeightedMean(RatSum(Products(resemblances, weights)), RatSum(weights))
      [] blender = "Minimum" -> FoldMin(Infinity, resemblances)
      [] blender = "Maximum" -> FoldMax(Zero, resemblances)
      [] blender = "Product" -> RatProduct(resemblances)

\* The Resemblance Blend::resemblance and Union::resemblance make of value.
ResultOf(value) ==
    IF RatGe(value, One) THEN Perfect
    ELSE IF RatGt(value, Zero) THEN Partial(value)
    ELSE Disparity

\* The loop of Blend::resemblance: assess the dimensions of the clone in
\* order and return at the first that failed, with its error.
RECURSIVE BlendAssessLoop(_, _, _, _)
RECURSIVE BlendAssessStep(_, _, _, _, _)
BlendAssessStep(d, rest, query, candidate, acc) ==
    IF d.error # None THEN Err(d.error.val)
    ELSE BlendAssessLoop(rest, query, candidate, Append(acc, d))

BlendAssessLoop(dims, query, candidate, acc) ==
    IF dims = <<>> THEN Ok(acc)
    ELSE BlendAssessStep(Assess(Head(dims), query, candidate), Tail(dims),
                         query, candidate, acc)

\* The tail of Blend::resemblance, after the loop.
BlendResult(blender, assessed) ==
    IF assessed.tag = "Err" THEN assessed
    ELSE Ok(ResultOf(BlendCompute(blender,
                [i \in 1 .. Len(assessed.val) |-> ToF64(assessed.val[i].resemblance)],
                [i \in 1 .. Len(assessed.val) |-> Rat(assessed.val[i].weight, 1)])))

\* impl Resembler for Blend: resemblance
BlendResemblance(self, query, candidate) ==
    BlendResult(self.blender,
                BlendAssessLoop(self.dimensions, query, candidate, <<>>))

\* ------------------------------------------------------------------- Union
\* The loop of Union::resemblance from the i-th resembler on: a resembler
\* that answers adds to the two sums, one that fails ends the call with
\* its error.
RECURSIVE UnionLoop(_, _, _, _, _, _)

\* A loop body that goes on to the next resembler after a failure.
UnionStepSkip(answer, self, i, query, candidate, total_contribution, successful_weight) ==
    IF answer.tag = "Err"
    THEN UnionLoop(self, i + 1, query, candidate, total_contribution, successful_weight)
    ELSE UnionLoop(self, i + 1, query, candidate,
                   RatAdd(total_contribution,
                          RatMul(ToF64(answer.val), Rat(self.weights[i], 1))),
                   RatAdd(successful_weight, Rat(self.weights[i], 1)))

UnionStep(answer, self, i, query, candidate, total_contribution, successful_weight) ==
    IF answer.tag = "Err" THEN answer
    ELSE UnionLoop(self, i + 1, query, candidate,
                   RatAdd(total_contribution,
                          RatMul(ToF64(answer.val), Rat(self.weights[i], 1))),
                   RatAdd(successful_weight, Rat(self.weights[i], 1)))

UnionLoop(self, i, query, candidate, total_contribution, successful_weight) ==
    IF i > Min(Len(self.resemblers), Len(self.weights))
    THEN Ok(ResultOf(IF RatGt(successful_weight, Zero)
                     THEN RatDiv(total_contribution, successful_weight)
                     ELSE Zero))
    ELSE UnionStep(Resemble(self.resemblers[i], query, candidate), self, i,
                   query, candidate, total_contribution, successful_weight)

\* impl Resembler for Union: resemblance
UnionResemblance(self, query, candidate) ==
    UnionLoop(self, 1, query, candidate, Zero, Zero)

\* ------------------------------------------------------ nested resemblers
\* The Blend or Union behind each name of NestedKinds:
\* Blend::weighted(vec![..]), Blend::minimum(vec![..]),
\* Union::new().add(r, w)...
NestedResemblers ==
    [name \in NestedKinds |->
        CASE name = "blend(graded,strict)" ->
                [blend |-> BlendNew(<<DimensionNew("graded", 1),
                                      DimensionNew("strict", 1)>>, "Weighted")]
          [] name = "blend(strict,graded)" ->
                [blend |-> BlendNew(<<DimensionNew("strict", 1),
                                      DimensionNew("graded", 2)>>, "Minimum")]
          [] name = "union(graded,strict)" ->
                [union |-> [resemblers |-> <<"graded", "strict">>,
                            weights |-> <<1, 1>>]]
          [] name = "union(exact,strict,graded)" ->
                [union |-> [resemblers |-> <<"exact", "strict", "graded">>,
                            weights |-> <<1, 2, 1>>]]]

\* The call of a nested resembler through the trait object.
NestedResemblance(name, query, candidate) ==
    IF "blend" \in DOMAIN NestedResemblers[name]
    THEN BlendResemblance(NestedResemblers[name].blend, query, candidate)
    ELSE UnionResemblance(NestedResemblers[name].union, query, candidate)

\* ----------------------------------------------------------------- Profile
\* Mutant of Profile::viable: > where the code has >=.
ProfileViableStrict(profile, floor) == RatGt(ToF64(profile.resemblance), floor)

\* Profile::viable
ProfileViable(profile, floor) == RatGe(ToF64(profile.resemblance), floor)

\* Profile::has_errors
ProfileHasErrors(profile) ==
    \E i \in 1 .. Len(profile.dimensions) : profile.dimensions[i].error # None

\* ---------------------------------------------------------------- Assessor
\* The loop of Assessor::profile: assess each dimension of the clone in
\* order, pushing its error (if any) onto the assessor's error list.
PushAssessed(acc, d) ==
    [dimensions |-> Append(acc.dimensions, d),
     errors |-> IF d.error # None THEN Append(acc.errors, d.error.val)
                ELSE acc.errors]

\* Mutant of AssessLoop: the loop stops at the first failing dimension, as
\* Blend::resemblance does, and the dimensions behind it stay unassessed.
RECURSIVE AssessLoopAbort(_, _, _, _)
AssessLoopAbort(dims, query, candidate, acc) ==
    IF dims = <<>> THEN acc
    ELSE IF acc.errors # <<>>
         THEN AssessLoopAbort(Tail(dims), query, candidate,
                              [acc EXCEPT !.dimensions = Append(@, Head(dims))])
         ELSE AssessLoopAbort(Tail(dims), query, candidate,
                              PushAssessed(acc, Assess(Head(dims), query, candidate)))

RECURSIVE AssessLoop(_, _, _, _)
AssessLoop(dims, query, candidate, acc) ==
    IF dims = <<>> THEN acc
    ELSE AssessLoop(Tail(dims), query, candidate,
                    PushAssessed(acc, Assess(Head(dims), query, candidate)))

\* Mutant of TotalResemblance: the divisor counts the weights of the
\* dimensions that succeeded only, as Union::resemblance does.
TotalResemblanceSuccessful(dimensions) ==
    LET Succeeded(d) == d.error = None
        successful == SelectSeq(dimensions, Succeeded)
        successful_weight == RatSum([i \in 1 .. Len(successful) |->
                                        Rat(successful[i].weight, 1)])
    IN  IF RatGt(successful_weight, Zero)
        THEN RatDiv(RatSum([i \in 1 .. Len(dimensions) |-> dimensions[i].contribution]),
                    successful_weight)
        ELSE Zero

\* The tail of Assessor::profile, after the loop: the totals and the Profile.
TotalResemblance(dimensions) ==
    IF RatGt(RatSum([i \in 1 .. Len(dimensions) |-> Rat(dimensions[i].weight, 1)]), Zero)
    THEN RatDiv(RatSum([i \in 1 .. Len(dimensions) |-> dimensions[i].contribution]),
                RatSum([i \in 1 .. Len(dimensions) |-> Rat(dimensions[i].weight, 1)]))
    ELSE Zero

\* Mutant of ProfileOf: the assessed dimensions are written back to the
\* assessor (the loop runs over self.dimensions, not over a clone).
ProfileOfInPlace(self, query, candidate, done) ==
    [self |-> [self EXCEPT !.errors = done.errors, !.dimensions = done.dimensions],
     ret |-> [query |-> query, candidate |-> candidate,
              dimensions |-> done.dimensions,
              resemblance |-> FromF64(TotalResemblance(done.dimensions))]]

ProfileOf(self, query, candidate, done) ==
    [self |-> [self EXCEPT !.errors = done.errors],
     ret |-> [query |-> query, candidate |-> candidate,
              dimensions |-> done.dimensions,
              resemblance |-> FromF64(TotalResemblance(done.dimensions))]]

\* Mutant of AssessorProfile: the loop runs over self.dimensions in place,
\* and a dimension that succeeds does not reset its error, so that the
\* error of an earlier call stays on it.
AssessWithStaleError(self, r) ==
    IF r.tag = "Ok"
    THEN [self EXCEPT !.resemblance = r.val,
                      !.contribution = RatMul(ToF64(r.val), Rat(self.weight, 1))]
    ELSE [self EXCEPT !.resemblance = Disparity,
                      !.contribution = Zero,
                      !.error = Some(r.err)]

RECURSIVE AssessLoopInPlace(_, _, _, _)
AssessLoopInPlace(dims, query, candidate, acc) ==
    IF dims = <<>> THEN acc
    ELSE AssessLoopInPlace(Tail(dims), query, candidate,
            PushAssessed(acc, AssessWithStaleError(Head(dims),
                                  Resemble(Head(dims).resembler, query, candidate))))

AssessorProfileInPlace(self, query, candidate) ==
    ProfileOfInPlace(self, query, candidate,
                     AssessLoopInPlace(self.dimensions, query, candidate,
                                       [dimensions |-> <<>>, errors |-> <<>>]))

\* Mutant of AssessorProfile: self.errors.clear() is left out.
AssessorProfileKeepErrors(self, query, candidate) ==
    ProfileOf(self, query, candidate,
              AssessLoop(self.dimensions, query, candidate,
                         [dimensions |-> <<>>, errors |-> self.errors]))

\* Assessor::profile: the assessor after the call (self) and the returned
\* Profile (ret).
AssessorProfile(self, query, candidate) ==
    ProfileOf(self, query, candidate,
              AssessLoop(self.dimensions, query, candidate,
                         [dimensions |-> <<>>, errors |-> <<>>]))

\* Assessor::has_errors, Assessor::get_errors
HasErrors(self) == self.errors # <<>>
GetErrors(self) == self.errors

\* Assessor::viable
ViableOf(floor, p) == [self |-> p.self, ret |-> ProfileViable(p.ret, floor)]

AssessorViable(self, query, candidate) ==
    ViableOf(self.floor, AssessorProfile(self, query, candidate))

\* The body of the loop of Assessor::champion, p being the profile call.
\* A loop body that keeps the assessor of the last candidate that became
\* the best, with that call's errors.
ChampionPickKeepErrors(acc, p) ==
    IF ProfileViable(p.ret, acc.self.floor)
       /\ RatGt(ToF64(p.ret.resemblance), acc.best_resemblance)
    THEN [self |-> p.self, best_profile |-> Some(p.ret),
          best_resemblance |-> ToF64(p.ret.resemblance)]
    ELSE acc

ChampionPick(acc, p) ==
    IF ProfileViable(p.ret, acc.self.floor)
       /\ RatGt(ToF64(p.ret.resemblance), acc.best_resemblance)
    THEN [self |-> p.self, best_profile |-> Some(p.ret),
          best_resemblance |-> ToF64(p.ret.resemblance)]
    ELSE [acc EXCEPT !.self = p.self]

ChampionStep(acc, candidate, query) ==
    ChampionPick(acc, AssessorProfile(acc.self, query, candidate))

RECURSIVE ChampionLoop(_, _, _)
ChampionLoop(acc, candidates, query) ==
    IF candidates = <<>> THEN acc
    ELSE ChampionLoop(ChampionStep(acc, Head(candidates), query),
                      Tail(candidates), query)

ChampionResult(done) == [self |-> done.self, ret |-> done.best_profile]

\* Assessor::champion
AssessorChampion(self, query, candidates) ==
    ChampionResult(ChampionLoop([self |-> self, best_profile |-> None,
                                 best_resemblance |-> MinusOne], candidates, query))

\* Assessor::resemblance
ResemblanceOf(p) == [self |-> p.self, ret |-> p.ret.resemblance]

AssessorResemblance(self, query, candidate) ==
    ResemblanceOf(AssessorProfile(self, query, candidate))

\* Assessor::all_profiles: the map over the candidates, in order.
AllProfilesPick(acc, p) ==
    [self |-> p.self, ret |-> Append(acc.ret, p.ret)]

RECURSIVE AllProfilesLoop(_, _, _)
AllProfilesLoop(acc, candidates, query) ==
    IF candidates = <<>> THEN acc
    ELSE AllProfilesLoop(AllProfilesPick(acc, AssessorProfile(acc.self, query,
                                                              Head(candidates))),
                         Tail(candidates), query)

AssessorAllProfiles(self, query, candidates) ==
    AllProfilesLoop([self |-> self, ret |-> <<>>], candidates, query)

\* Assessor::error_profiles: the map, filtered by Profile::has_errors.
ErrorProfilesPick(acc, p) ==
    IF ProfileHasErrors(p.ret)
    THEN [self |-> p.self, ret |-> Append(acc.ret, p.ret)]
    ELSE [acc EXCEPT !.self = p.self]

RECURSIVE ErrorProfilesLoop(_, _, _)
ErrorProfilesLoop(acc, candidates, query) ==
    IF candidates = <<>> THEN acc
    ELSE ErrorProfilesLoop(ErrorProfilesPick(acc, AssessorProfile(acc.self, query,
                                                                  Head(candidates))),
                           Tail(candidates), query)

AssessorErrorProfiles(self, query, candidates) ==
    ErrorProfilesLoop([self |-> self, ret |-> <<>>], candidates, query)

\* slice::sort_by with the comparator b.key.partial_cmp(a.key): a stable
\* sort into descending key order, over [key, item] pairs.  Insert puts x
\* behind every element that does not compare greater than it.
\* Mutant of InsertDesc: x goes before the elements that compare equal to
\* it (an unstable sort).
RECURSIVE InsertDescBeforeEqual(_, _)
InsertDescBeforeEqual(sorted, x) ==
    IF sorted = <<>> THEN <<x>>
    ELSE IF RatGt(Head(sorted).key, x.key)
         THEN <<Head(sorted)>> \o InsertDescBeforeEqual(Tail(sorted), x)
         ELSE <<x>> \o sorted

RECURSIVE InsertDesc(_, _)
InsertDesc(sorted, x) ==
    IF sorted = <<>> THEN <<x>>
    ELSE IF RatGe(Head(sorted).key, x.key)
         THEN <<Head(sorted)>> \o InsertDesc(Tail(sorted), x)
         ELSE <<x>> \o sorted

RECURSIVE SortKeyed(_)
SortKeyed(s) ==
    IF s = <<>> THEN <<>>
    ELSE InsertDesc(SortKeyed(SubSeq(s, 1, Len(s) - 1)), s[Len(s)])

\* keys[i] is the comparator's key of s[i].
Items(sorted) == [i \in 1 .. Len(sorted) |-> sorted[i].item]

SortByDesc(s, keys) ==
    Items(SortKeyed([i \in 1 .. Len(s) |-> [key |-> keys[i], item |-> s[i]]]))

ProfileKeys(profiles) ==
    [i \in 1 .. Len(profiles) |-> ToF64(profiles[i].resemblance)]

\* The body of the loop of Assessor::shortlist, p being the profile call.
ShortlistPick(acc, p) ==
    IF ProfileViable(p.ret, acc.self.floor)
    THEN [self |-> p.self, profiles |-> Append(acc.profiles, p.ret)]
    ELSE [acc EXCEPT !.self = p.self]

ShortlistStep(acc, candidate, query) ==
    ShortlistPick(acc, AssessorProfile(acc.self, query, candidate))

RECURSIVE ShortlistLoop(_, _, _)
ShortlistLoop(acc, candidates, query) ==
    IF candidates = <<>> THEN acc
    ELSE ShortlistLoop(ShortlistStep(acc, Head(candidates), query),
                       Tail(candidates), query)

\* Mutant of ShortlistResult: the sort is left out.
ShortlistResultUnsorted(done) == [self |-> done.self, ret |-> done.profiles]

ShortlistResult(done) ==
    [self |-> done.self, ret |-> SortByDesc(done.profiles, ProfileKeys(done.profiles))]

\* Assessor::shortlist
AssessorShortlist(self, query, candidates) ==
    ShortlistResult(ShortlistLoop([self |-> self, profiles |-> <<>>],
                                  candidates, query))

\* Mutant of Truncate: Vec::resize, which also pads a shorter vector up to
\* len (here with copies of a default entry).
TruncateAsResize(v, len) ==
    IF len < Len(v) THEN SubSeq(v, 1, len)
    ELSE v \o [i \in 1 .. len - Len(v) |-> None]

\* Vec::truncate
Truncate(v, len) == IF len < Len(v) THEN SubSeq(v, 1, len) ELSE v

\* Mutant of ConstrainResult: the limit rule of Matcher::find_matches, under
\* which a cap of 0 means no cap.
ConstrainResultZeroUnlimited(s, cap_) ==
    [self |-> s.self,
     ret |-> IF cap_ > 0 /\ Len(s.ret) > cap_ THEN Truncate(s.ret, cap_) ELSE s.ret]

ConstrainResult(s, cap_) == [self |-> s.self, ret |-> Truncate(s.ret, cap_)]

\* Assessor::constrain
AssessorConstrain(self, query, candidates, cap_) ==
    ConstrainResult(AssessorShortlist(self, query, candidates), cap_)

\* ----------------------------------------------------------------- Matcher
MetricKinds == {"graded", "exact"}

\* SimilarityMetric::calculate of the leaf metrics (f64, no failure: a leaf
\* that cannot score its input answers 0.0).
Calculate(metric, query, candidate) ==
    CASE metric = "graded" ->
            IF candidate.g < 0 THEN Zero ELSE Rat(candidate.g, Scale)
      [] metric = "exact" ->
            IF candidate.x THEN One ELSE Zero
      [] metric = "lenient" ->
            IF candidate.g < 0 THEN Zero ELSE Rat(candidate.g, Scale)

\* SimilarityMetric::is_exact_match: the default method, score >= 0.9999,
\* which an implementation may override; the "lenient" metric does, with its
\* own test of equality.
IsExactMatch(metric, query, candidate) ==
    IF metric = "lenient" THEN candidate.x
    ELSE RatGe(Calculate(metric, query, candidate), Rat(9999, 10000))

\* WeightedMetric::new
WeightedMetricNew(metric, weight) == [metric |-> metric, weight |-> weight]

Exact == [tag |-> "Exact"]
Similar(id) == [tag |-> "Similar", id |-> id]
NotFound == [tag |-> "NotFound"]

WeightedScores(scores) == [i \in 1 .. Len(scores) |-> scores[i].weighted_score]

\* The scores of Matcher::get_metric_scores, before the sort.
MetricScores(self, query, candidate) ==
    [i \in 1 .. Len(self.metrics) |->
        [id |-> self.metrics[i].metric,
         raw_score |-> Calculate(self.metrics[i].metric, query, candidate),
         weight |-> self.metrics[i].weight,
         weighted_score |-> RatMul(Calculate(self.metrics[i].metric, query, candidate),
                                   Rat(self.metrics[i].weight, 1))]]

SortedByWeightedScore(scores) == SortByDesc(scores, WeightedScores(scores))

\* Matcher::get_metric_scores
GetMetricScores(self, query, candidate) ==
    SortedByWeightedScore(MetricScores(self, query, candidate))

\* Matcher::calculate_overall_score
TotalWeightedScore(metric_scores) ==
    RatSum([i \in 1 .. Len(metric_scores) |-> metric_scores[i].weighted_score])

TotalWeight(metric_scores) ==
    RatSum([i \in 1 .. Len(metric_scores) |-> Rat(metric_scores[i].weight, 1)])

CalculateOverallScore(metric_scores) ==
    IF RatGt(TotalWeight(metric_scores), Zero)
    THEN RatDiv(TotalWeightedScore(metric_scores), TotalWeight(metric_scores))
    ELSE Zero

\* Iterator::max_by over [key, item] pairs: the LAST of the elements that
\* compare maximal (std keeps the later one on Ordering::Equal).
RECURSIVE MaxByLoop(_, _)
MaxByLoop(best, rest) ==
    IF rest = <<>> THEN best
    ELSE MaxByLoop(IF RatGt(best.key, Head(rest).key) THEN best ELSE Head(rest),
                   Tail(rest))

MaxKeyed(keyed) ==
    IF keyed = <<>> THEN None
    ELSE Some(MaxByLoop(Head(keyed), Tail(keyed)).item)

\* keys[i] is the comparator's key of s[i].
MaxBy(s, keys) == MaxKeyed([i \in 1 .. Len(s) |-> [key |-> keys[i], item |-> s[i]]])

RawScores(scores) == [i \in 1 .. Len(scores) |-> scores[i].raw_score]

IdOf(m) == IF m = None THEN None ELSE Some(m.val.id)

\* Matcher::get_best_metric
GetBestMetric(metric_scores) == IdOf(MaxBy(metric_scores, RawScores(metric_scores)))

\* MatchType of Matcher::analyze
MatchTypeOf(is_exact, is_match, best_metric) ==
    IF is_exact THEN Exact
    ELSE IF is_match
         THEN IF best_metric # None THEN Similar(best_metric.val) ELSE NotFound
         ELSE NotFound

\* Matcher::analyze, from the sorted metric scores and the overall score.
AnalysisOf(self, query, candidate, metric_scores, overall_score) ==
    [query |-> query, candidate |-> candidate, score |-> overall_score,
     match_type |->
        MatchTypeOf(\E i \in 1 .. Len(self.metrics) :
                        IsExactMatch(self.metrics[i].metric, query, candidate),
                    RatGe(overall_score, self.config.threshold),
                    GetBestMetric(metric_scores)),
     metric_scores |-> metric_scores,
     is_match |-> RatGe(overall_score, self.config.threshold)]

AnalyzeScores(self, query, candidate, metric_scores) ==
    AnalysisOf(self, query, candidate, metric_scores,
               CalculateOverallScore(metric_scores))

\* Matcher::analyze
Analyze(self, query, candidate) ==
    AnalyzeScores(self, query, candidate, GetMetricScores(self, query, candidate))

\* The MatchResult the ranking operations build from an analysis.
MatchResultOf(result) ==
    [score |-> result.score, query |-> result.query,
     candidate |-> result.candidate, match_type |-> result.match_type]

Scores(infos) == [i \in 1 .. Len(infos) |-> infos[i].score]

\* The filter of Matcher::find_best_match.
AboveThreshold(self, infos) ==
    LET Above(info) == RatGe(info.score, self.config.threshold)
    IN  SelectSeq(infos, Above)

MaxByScore(infos) == MaxBy(infos, Scores(infos))

\* Matcher::find_best_match
MatcherFindBestMatch(self, query, candidates) ==
    IF candidates = <<>> THEN None
    ELSE MaxByScore(AboveThreshold(self,
            [i \in 1 .. Len(candidates) |->
                MatchResultOf(Analyze(self, query, candidates[i]))]))

\* The loop of Matcher::find_matches: the matches pushed, in input order.
PushedMatches(self, query, candidates) ==
    LET IsMatch(result) == result.is_match
        pushed == SelectSeq([i \in 1 .. Len(candidates) |->
                                Analyze(self, query, candidates[i])], IsMatch)
    IN  [i \in 1 .. Len(pushed) |-> MatchResultOf(pushed[i])]

SortedByScore(matches) == SortByDesc(matches, Scores(matches))

\* The limit rule of find_matches: 0 means no limit.
Limit(matches, limit) ==
    IF limit > 0 /\ Len(matches) > limit THEN Truncate(matches, limit)
    ELSE matches

\* Matcher::find_matches
MatcherFindMatches(self, query, candidates, limit) ==
    Limit(SortedByScore(PushedMatches(self, query, candidates)), limit)

\* ------------------------------------------------------------ MultiMatcher
\* The body of the loop of MultiMatcher::find_best_match.
MultiBestPick(acc, match_result) ==
    IF match_result # None /\ RatGt(match_result.val.score, acc.best_score)
    THEN [best_match |-> match_result, best_score |-> match_result.val.score]
    ELSE acc

RECURSIVE MultiBestLoop(_, _, _, _)
MultiBestLoop(acc, matchers, query, candidates) ==
    IF matchers = <<>> THEN acc
    ELSE MultiBestLoop(MultiBestPick(acc, MatcherFindBestMatch(Head(matchers), query,
                                                               candidates)),
                       Tail(matchers), query, candidates)

\* MultiMatcher::find_best_match
MultiFindBestMatch(self, query, candidates) ==
    IF candidates = <<>> \/ self.matchers = <<>> THEN None
    ELSE MultiBestLoop([best_match |-> None, best_score |-> self.threshold],
                       self.matchers, query, candidates).best_match

\* The loop of MultiMatcher::find_matches: every sub-matcher's matches
\* (unlimited), one after the other.
RECURSIVE ExtendedMatches(_, _, _)
ExtendedMatches(matchers, query, candidates) ==
    IF matchers = <<>> THEN <<>>
    ELSE MatcherFindMatches(Head(matchers), query, candidates, 0)
            \o ExtendedMatches(Tail(matchers), query, candidates)

\* Vec::dedup_by(|a, b| a.candidate == b.candidate): an element is
\* removed when it has the candidate of the element retained before it.
RECURSIVE DedupBy(_, _)
DedupBy(retained, rest) ==
    IF rest = <<>> THEN retained
    ELSE DedupBy(IF /\ retained # <<>>
                    /\ Head(rest).candidate = retained[Len(retained)].candidate
                 THEN retained
                 ELSE Append(retained, Head(rest)),
                 Tail(rest))

\* A find_matches that truncates to the limit even when it is 0.
MultiFindMatchesZeroLimit(self, query, candidates, limit) ==
    IF candidates = <<>> \/ self.matchers = <<>> THEN <<>>
    ELSE Truncate(DedupBy(<<>>, SortedByScore(ExtendedMatches(self.matchers, query,
                                                              candidates))),
                  limit)

\* MultiMatcher::find_matches
MultiFindMatches(self, query, candidates, limit) ==
    IF candidates = <<>> \/ self.matchers = <<>> THEN <<>>
    ELSE Limit(DedupBy(<<>>, SortedByScore(ExtendedMatches(self.matchers, query,
                                                           candidates))),
               limit)

\* ------------------------------------------------------ CompositeSimilarity
\* The metrics a composite can hold: the leaf metrics, and one that
\* overrides is_exact_match.
ChildKinds == MetricKinds \cup {"lenient"}

\* CompositeSimilarity::new
CompositeNew(id, strategy) == [id |-> id, metrics |-> <<>>, strategy |-> strategy]

\* CompositeSimilarity::add_metric
CompositeAddMetric(self, metric) == [self EXCEPT !.metrics = Append(@, metric)]

\* The loop of the Fallback arm: the first score >= threshold, if any.
RECURSIVE FallbackLoop(_, _)
FallbackLoop(scores, threshold) ==
    IF scores = <<>> THEN None
    ELSE IF RatGe(Head(scores), threshold) THEN Some(Head(scores))
    ELSE FallbackLoop(Tail(scores), threshold)

\* The weight of the child at (1-based) position i under Weighted(weights).
WeightAt(weights, i) == IF i <= Len(weights) THEN Rat(weights[i], 1) ELSE One

\* The end of the Weighted arm.
WeightedResult(total_score, total_weight) ==
    IF RatGt(total_weight, Zero) THEN RatDiv(total_score, total_weight) ELSE Zero

\* A Weighted arm that gives the children beyond the vector the weight 0.
WeightedNoDefault(weights, scores) ==
    WeightedResult(
        RatSum([i \in 1 .. Min(Len(scores), Len(weights)) |->
                    RatMul(scores[i], Rat(weights[i], 1))]),
        RatSum([i \in 1 .. Min(Len(scores), Len(weights)) |-> Rat(weights[i], 1)]))

\* The Weighted arm of calculate.
WeightedArm(weights, scores) ==
    WeightedResult(
        RatSum([i \in 1 .. Len(scores) |-> RatMul(scores[i], WeightAt(weights, i))]),
        RatSum([i \in 1 .. Len(scores) |-> WeightAt(weights, i)]))

\* A Fallback arm that answers the first score when none reaches the
\* threshold.
FallbackFirst(threshold, scores) ==
    IF FallbackLoop(scores, threshold) # None THEN FallbackLoop(scores, threshold).val
    ELSE scores[1]

\* The Fallback arm of calculate: the loop's score, or
\* scores.last().cloned().unwrap_or(0.0) when it returned nothing.
FallbackArm(threshold, scores) ==
    IF FallbackLoop(scores, threshold) # None THEN FallbackLoop(scores, threshold).val
    ELSE IF scores = <<>> THEN Zero ELSE scores[Len(scores)]

\* The match on the strategy in calculate.
CombineScores(strategy, scores) ==
    CASE strategy.tag = "Maximum" -> FoldMax(Zero, scores)
      [] strategy.tag = "Average" ->
            IF scores = <<>> THEN Zero
            ELSE RatDiv(RatSum(scores), Rat(Len(scores), 1))
      [] strategy.tag = "Fallback" -> FallbackArm(strategy.threshold, scores)
      [] strategy.tag = "Weighted" -> WeightedArm(strategy.weights, scores)

\* SimilarityMetric::calculate for CompositeSimilarity
CompositeCalculate(self, query, candidate) ==
    IF self.metrics = <<>> THEN Zero
    ELSE CombineScores(self.strategy,
                       [i \in 1 .. Len(self.metrics) |->
                            Calculate(self.metrics[i], query, candidate)])

\* SimilarityMetric::is_exact_match for CompositeSimilarity: the default
\* method, which the composite does not override.
CompositeIsExactMatch(self, query, candidate) ==
    RatGe(CompositeCalculate(self, query, candidate), Rat(9999, 10000))

\* SimilarityMetric::match_type for CompositeSimilarity
CompositeMatchType(self, query, candidate) ==
    IF \E i \in 1 .. Len(self.metrics) :
            IsExactMatch(self.metrics[i], query, candidate)
    THEN Some(Exact)
    ELSE IF RatGt(CompositeCalculate(self, query, candidate), Zero)
         THEN Some(Similar(self.id))
         ELSE None


\* ------------------------------------------------------------------- state
VARIABLES
    assessor,    \* the Assessor {dimensions, floor, errors}, or None
    matcher,     \* the Matcher {metrics, config}, or None
    multi,       \* the MultiMatcher {matchers, threshold}, or None
    blend,       \* the Blend {dimensions, blender} called as a Resembler, or None
    composite,   \* the CompositeSimilarity {id, metrics, strategy}, or None
    builder,     \* the MatcherBuilder before build, or None
    passed,      \* the metrics the caller passed to builder.metric(), in call order
    candidates,  \* the caller's candidate list, input of the next call
    op,          \* the last operation called ("idle": none since the input changed)
    cap,         \* its cap / limit argument (0 when it has none)
    ret          \* what it returned

vars ==
    <<assessor, matcher, multi, blend, composite, builder, passed, candidates, op, cap, ret>>

Weights == 0 .. MaxWeight
Floors == {Rat(k, Scale) : k \in 0 .. Scale}

SeqsUpTo(S, n) == UNION {[1 .. k -> S] : k \in 0 .. n}

\* Assessor::new().dimension(r, w)...floor(f)
AssessorConfigs ==
    {[dimensions |-> dims, floor |-> f, errors |-> <<>>] :
        dims \in SeqsUpTo({DimensionNew(r, w) : r \in ResemblerKinds, w \in Weights},
                          MaxDims),
        f \in Floors}

\* Matcher::new().with_metric(m, w)...with_threshold(t)
MatcherConfigs ==
    {[metrics |-> ms, config |-> [threshold |-> t]] :
        ms \in SeqsUpTo({WeightedMetricNew(m, w) : m \in MetricKinds, w \in Weights},
                        MaxDims),
        t \in Floors}

\* The sub-matchers of a MultiMatcher: one metric of weight 1 each.
SubMatchers ==
    {[metrics |-> <<WeightedMetricNew(m, 1)>>, config |-> [threshold |-> t]] :
        m \in MetricKinds, t \in Floors}

\* MultiMatcher::new().with_matcher(m)...with_threshold(t)
MultiConfigs ==
    {[matchers |-> ms, threshold |-> t] :
        ms \in SeqsUpTo(SubMatchers, MaxMatchers), t \in Floors}

\* Blend::weighted(dims), Blend::minimum(dims), ...
BlendConfigs ==
    {BlendNew(dims, b) :
        dims \in SeqsUpTo({DimensionNew(r, w) : r \in ResemblerKinds, w \in Weights},
                          MaxDims),
        b \in Blenders}

\* The engines share no state, so a behaviour exercises one of them: the
\* one that was constructed.
\* Assessor::new
AssessorNew == [dimensions |-> <<>>, floor |-> Rat(2, 5), errors |-> <<>>]

\* Assessor::floor
AssessorFloor(self, floor) == [self EXCEPT !.floor = floor]

\* Assessor::dimension
AssessorDimension(self, resembler, weight) ==
    [self EXCEPT !.dimensions = Append(@, DimensionNew(resembler, weight))]

Init ==
    /\ \/ assessor \in AssessorConfigs /\ matcher = None /\ multi = None /\ blend = None
       \/ assessor = None /\ matcher \in MatcherConfigs /\ multi = None /\ blend = None
       \/ assessor = None /\ matcher = None /\ multi \in MultiConfigs /\ blend = None
       \/ assessor = None /\ matcher = None /\ multi = None /\ blend \in BlendConfigs
    /\ composite = None /\ builder = None /\ passed = <<>>
    /\ candidates = <<>>
    /\ op = "idle"
    /\ cap = 0
    /\ ret = None

\* An assessor call returns: the assessor it leaves and the value returned.
Returns(r) == assessor' = r.self /\ ret' = r.ret

\* The caller appends a candidate to its list.
PushCandidate(c) ==
    /\ Len(candidates) < MaxLen
    /\ candidates' = Append(candidates, c)
    /\ op' = "idle" /\ cap' = 0 /\ ret' = None
    /\ UNCHANGED <<assessor, matcher, multi, blend, composite, builder, passed>>

\* The caller starts a new list.
ClearCandidates ==
    /\ candidates # <<>>
    /\ candidates' = <<>>
    /\ op' = "idle" /\ cap' = 0 /\ ret' = None
    /\ UNCHANGED <<assessor, matcher, multi, blend, composite, builder, passed>>

\* assessor.profile(&query, &candidate), the candidate being the caller's one.
Profile ==
    /\ assessor # None /\ Len(candidates) = 1
    /\ Returns(AssessorProfile(assessor, Query, candidates[1]))
    /\ op' = "profile" /\ cap' = 0
    /\ UNCHANGED <<matcher, multi, blend, composite, builder, passed, candidates>>

\* assessor.viable(&query, &candidate)
Viable ==
    /\ assessor # None /\ Len(candidates) = 1
    /\ Returns(AssessorViable(assessor, Query, candidates[1]))
    /\ op' = "viable" /\ cap' = 0
    /\ UNCHANGED <<matcher, multi, blend, composite, builder, passed, candidates>>

\* assessor.champion(&query, &candidates)
Champion ==
    /\ assessor # None
    /\ Returns(AssessorChampion(assessor, Query, candidates))
    /\ op' = "champion" /\ cap' = 0
    /\ UNCHANGED <<matcher, multi, blend, composite, builder, passed, candidates>>

\* assessor.shortlist(&query, &candidates)
Shortlist ==
    /\ assessor # None
    /\ Returns(AssessorShortlist(assessor, Query, candidates))
    /\ op' = "shortlist" /\ cap' = 0
    /\ UNCHANGED <<matcher, multi, blend, composite, builder, passed, candidates>>

\* assessor.constrain(&query, &candidates, n)
Constrain(n) ==
    /\ assessor # None
    /\ Returns(AssessorConstrain(assessor, Query, candidates, n))
    /\ op' = "constrain" /\ cap' = n
    /\ UNCHANGED <<matcher, multi, blend, composite, builder, passed, candidates>>

\* assessor.resemblance(&query, &candidate)
Resemblance ==
    /\ assessor # None /\ Len(candidates) = 1
    /\ Returns(AssessorResemblance(assessor, Query, candidates[1]))
    /\ op' = "resemblance" /\ cap' = 0
    /\ UNCHANGED <<matcher, multi, blend, composite, builder, passed, candidates>>

\* assessor.all_profiles(&query, &candidates)
AllProfiles ==
    /\ assessor # None
    /\ Returns(AssessorAllProfiles(assessor, Query, candidates))
    /\ op' = "all_profiles" /\ cap' = 0
    /\ UNCHANGED <<matcher, multi, blend, composite, builder, passed, candidates>>

\* assessor.error_profiles(&query, &candidates)
ErrorProfiles ==
    /\ assessor # None
    /\ Returns(AssessorErrorProfiles(assessor, Query, candidates))
    /\ op' = "error_profiles" /\ cap' = 0
    /\ UNCHANGED <<matcher, multi, blend, composite, builder, passed, candidates>>

\* blend.resemblance(&query, &candidate), the Blend called as a Resembler
BlendResemble ==
    /\ blend # None /\ Len(candidates) = 1
    /\ ret' = BlendResemblance(blend, Query, candidates[1])
    /\ op' = "blend_resemblance" /\ cap' = 0
    /\ UNCHANGED <<assessor, matcher, multi, blend, composite, builder, passed, candidates>>

\* matcher.analyze(&query, &candidate)
MatcherAnalyze ==
    /\ matcher # None /\ Len(candidates) = 1
    /\ ret' = Analyze(matcher, Query, candidates[1])
    /\ op' = "analyze" /\ cap' = 0
    /\ UNCHANGED <<assessor, matcher, multi, blend, composite, builder, passed, candidates>>

\* matcher.find_best_match(&query, &candidates)
FindBestMatch ==
    /\ matcher # None
    /\ ret' = MatcherFindBestMatch(matcher, Query, candidates)
    /\ op' = "find_best_match" /\ cap' = 0
    /\ UNCHANGED <<assessor, matcher, multi, blend, composite, builder, passed, candidates>>

\* matcher.find_matches(&query, &candidates, limit)
FindMatches(limit) ==
    /\ matcher # None
    /\ ret' = MatcherFindMatches(matcher, Query, candidates, limit)
    /\ op' = "find_matches" /\ cap' = limit
    /\ UNCHANGED <<assessor, matcher, multi, blend, composite, builder, passed, candidates>>

\* multi.find_best_match(&query, &candidates)
MultiBestMatch ==
    /\ multi # None
    /\ ret' = MultiFindBestMatch(multi, Query, candidates)
    /\ op' = "multi_find_best_match" /\ cap' = 0
    /\ UNCHANGED <<assessor, matcher, multi, blend, composite, builder, passed, candidates>>

\* multi.find_matches(&query, &candidates, limit)
MultiMatches(limit) ==
    /\ multi # None
    /\ ret' = MultiFindMatches(multi, Query, candidates, limit)
    /\ op' = "multi_find_matches" /\ cap' = limit
    /\ UNCHANGED <<assessor, matcher, multi, blend, composite, builder, passed, candidates>>

Next ==
    \/ \E c \in Candidates : PushCandidate(c)
    \/ ClearCandidates
    \/ Profile
    \/ Viable
    \/ Champion
    \/ Shortlist
    \/ \E n \in 0 .. MaxCap : Constrain(n)
    \/ Resemblance
    \/ AllProfiles
    \/ ErrorProfiles
    \/ BlendResemble
    \/ MatcherAnalyze
    \/ FindBestMatch
    \/ \E limit \in 0 .. MaxCap : FindMatches(limit)
    \/ MultiBestMatch
    \/ \E limit \in 0 .. MaxCap : MultiMatches(limit)

Spec == Init /\ [][Next]_vars

\* ----------------------------------------------------------- the builder
\* The construction of an assessor, call by call: the weight handed to
\* dimension() is any f64, which nothing checks.
AnyWeights == -1 .. MaxWeight

InitBuilder ==
    /\ assessor = AssessorNew
    /\ matcher = None /\ multi = None /\ blend = None
    /\ composite = None /\ builder = None /\ passed = <<>>
    /\ candidates = <<>>
    /\ op = "idle"
    /\ cap = 0
    /\ ret = None

\* assessor = assessor.dimension(resembler, weight)
Dimension(resembler, weight) ==
    /\ Len(assessor.dimensions) < MaxDims
    /\ assessor' = AssessorDimension(assessor, resembler, weight)
    /\ op' = "idle" /\ cap' = 0 /\ ret' = None
    /\ UNCHANGED <<matcher, multi, blend, composite, builder, passed, candidates>>

\* assessor = assessor.floor(floor)
Floor(floor) ==
    /\ assessor' = AssessorFloor(assessor, floor)
    /\ op' = "idle" /\ cap' = 0 /\ ret' = None
    /\ UNCHANGED <<matcher, multi, blend, composite, builder, passed, candidates>>

NextBuilder ==
    \/ \E r \in ResemblerKinds, w \in AnyWeights : Dimension(r, w)
    \/ \E f \in Floors : Floor(f)
    \/ \E c \in Candidates : PushCandidate(c)
    \/ ClearCandidates
    \/ Profile

SpecBuilder == InitBuilder /\ [][NextBuilder]_vars

\* ------------------------------------------------- the composite metric
\* enum CompositeStrategy: Maximum, Average, Fallback(f64), Weighted(Vec<f64>),
\* the vector's entries being any numbers, negative ones included.
CompositeStrategies ==
    {[tag |-> "Maximum"], [tag |-> "Average"]}
        \cup {[tag |-> "Fallback", threshold |-> t] : t \in Floors}
        \cup {[tag |-> "Weighted", weights |-> v] : v \in SeqsUpTo(-1 .. MaxWeight, MaxDims)}

\* CompositeSimilarity::new("composite", strategy)
InitComposite ==
    /\ composite \in {CompositeNew("composite", st) : st \in CompositeStrategies}
    /\ assessor = None /\ matcher = None /\ multi = None /\ blend = None
    /\ builder = None /\ passed = <<>>
    /\ candidates = <<>>
    /\ op = "idle"
    /\ cap = 0
    /\ ret = None

\* composite.add_metric(metric)
AddMetric(metric) ==
    /\ Len(composite.metrics) < MaxDims
    /\ composite' = CompositeAddMetric(composite, metric)
    /\ op' = "idle" /\ cap' = 0 /\ ret' = None
    /\ UNCHANGED <<assessor, matcher, multi, blend, builder, passed, candidates>>

\* composite.calculate(&query, &candidate)
CompositeScore ==
    /\ Len(candidates) = 1
    /\ ret' = CompositeCalculate(composite, Query, candidates[1])
    /\ op' = "calculate" /\ cap' = 0
    /\ UNCHANGED <<assessor, matcher, multi, blend, composite, builder, passed, candidates>>

\* composite.is_exact_match(&query, &candidate)
CompositeExact ==
    /\ Len(candidates) = 1
    /\ ret' = CompositeIsExactMatch(composite, Query, candidates[1])
    /\ op' = "is_exact_match" /\ cap' = 0
    /\ UNCHANGED <<assessor, matcher, multi, blend, composite, builder, passed, candidates>>

\* composite.match_type(&query, &candidate)
CompositeType ==
    /\ Len(candidates) = 1
    /\ ret' = CompositeMatchType(composite, Query, candidates[1])
    /\ op' = "match_type" /\ cap' = 0
    /\ UNCHANGED <<assessor, matcher, multi, blend, composite, builder, passed, candidates>>

NextComposite ==
    \/ \E m \in ChildKinds : AddMetric(m)
    \/ \E c \in Candidates : PushCandidate(c)
    \/ ClearCandidates
    \/ CompositeScore
    \/ CompositeExact
    \/ CompositeType

SpecComposite == InitComposite /\ [][NextComposite]_vars

\* --------------------------------------- assessors over nested resemblers
\* Assessor::new().dimension(r, w)..., r a leaf, a Blend or a Union.
InitNested ==
    /\ assessor \in
          {[AssessorNew EXCEPT !.dimensions = dims] :
              dims \in SeqsUpTo({DimensionNew(r, w) :
                                    r \in NestedKinds \cup {"exact", "strict"},
                                    w \in 1 .. MaxWeight},
                                MaxDims)}
    /\ matcher = None /\ multi = None /\ blend = None
    /\ composite = None /\ builder = None /\ passed = <<>>
    /\ candidates = <<>>
    /\ op = "idle"
    /\ cap = 0
    /\ ret = None

NextNested ==
    \/ \E c \in Candidates : PushCandidate(c)
    \/ ClearCandidates
    \/ Profile

SpecNested == InitNested /\ [][NextNested]_vars

\* ------------------------------------------------------- the MatcherBuilder
\* Matcher::add_metric
MatcherAddMetric(self, metric, weight) ==
    [self EXCEPT !.metrics = Append(@, WeightedMetricNew(metric, weight))]

\* Matcher::add_option: the options map is created on the first insert.
MatcherAddOption(self, key, value) ==
    [self EXCEPT !.config.options =
        Some([k \in (IF @ = None THEN {} ELSE DOMAIN @.val) \cup {key} |->
                 IF k = key THEN value ELSE @.val[k]])]

\* MatcherBuilder::new(), the matcher being Matcher::new(): no metric, the
\* default MatcherConfig.
InitMatcherBuilder ==
    /\ builder = [matcher |-> [metrics |-> <<>>,
                               config |-> [threshold |-> Rat(2, 5), options |-> None]],
                  metric_groups |-> <<>>,
                  current_group |-> None,
                  conditional_thresholds |-> <<>>]
    /\ passed = <<>>
    /\ assessor = None /\ matcher = None /\ multi = None /\ blend = None
    /\ composite = None
    /\ candidates = <<>>
    /\ op = "idle"
    /\ cap = 0
    /\ ret = None

\* builder = builder.metric(metric, weight)
Metric(metric, weight) ==
    /\ builder # None /\ Len(passed) < MaxDims
    /\ builder' =
          IF builder.current_group # None
          THEN [builder EXCEPT !.metric_groups =
                  [i \in 1 .. Len(@) |->
                      IF @[i].name = builder.current_group.val
                      THEN [@[i] EXCEPT !.metrics = Append(@, WeightedMetricNew(metric, weight))]
                      ELSE @[i]]]
          ELSE [builder EXCEPT !.matcher = MatcherAddMetric(@, metric, weight)]
    /\ passed' = Append(passed, WeightedMetricNew(metric, weight))
    /\ UNCHANGED <<assessor, matcher, multi, blend, composite, candidates, op, cap, ret>>

\* builder = builder.threshold(threshold)
Threshold(threshold) ==
    /\ builder # None
    /\ builder' = [builder EXCEPT !.matcher.config.threshold = threshold]
    /\ UNCHANGED <<assessor, matcher, multi, blend, composite, passed, candidates,
                   op, cap, ret>>

\* builder = builder.conditional_threshold(condition, threshold)
ConditionalThreshold(threshold) ==
    /\ builder # None /\ Len(builder.conditional_thresholds) < MaxConditions
    /\ builder' = [builder EXCEPT !.conditional_thresholds = Append(@, threshold)]
    /\ UNCHANGED <<assessor, matcher, multi, blend, composite, passed, candidates,
                   op, cap, ret>>

\* builder = builder.option(key, value)
Option(key, value) ==
    /\ builder # None
    /\ builder' = [builder EXCEPT !.matcher = MatcherAddOption(@, key, value)]
    /\ UNCHANGED <<assessor, matcher, multi, blend, composite, passed, candidates,
                   op, cap, ret>>

\* builder = builder.begin_group(name)
BeginGroup(name) ==
    /\ builder # None
    /\ builder' =
          [builder EXCEPT
              !.current_group = Some(name),
              !.metric_groups =
                  IF \E i \in 1 .. Len(@) : @[i].name = name THEN @
                  ELSE Append(@, [name |-> name, metrics |-> <<>>])]
    /\ UNCHANGED <<assessor, matcher, multi, blend, composite, passed, candidates,
                   op, cap, ret>>

\* builder = builder.end_group()
EndGroup ==
    /\ builder # None
    /\ builder' = [builder EXCEPT !.current_group = None]
    /\ UNCHANGED <<assessor, matcher, multi, blend, composite, passed, candidates,
                   op, cap, ret>>

\* matcher = builder.build(): the builder is consumed.
Build ==
    /\ builder # None
    /\ matcher' =
          IF builder.conditional_thresholds # <<>>
          THEN MatcherAddOption(builder.matcher, "has_conditional_thresholds", "true")
          ELSE builder.matcher
    /\ builder' = None
    /\ op' = "build" /\ cap' = 0 /\ ret' = None
    /\ UNCHANGED <<assessor, multi, blend, composite, passed, candidates>>

NextMatcherBuilder ==
    \/ \E m \in MetricKinds, w \in 1 .. MaxWeight : Metric(m, w)
    \/ \E t \in Floors : Threshold(t)
    \/ \E t \in Floors : ConditionalThreshold(t)
    \/ \E v \in {"true", "false"} : Option("normalize_addresses", v)
    \/ \E name \in {"token_matching", "fuzzy"} : BeginGroup(name)
    \/ EndGroup
    \/ Build
    \/ \E c \in Candidates : matcher # None /\ candidates = <<>> /\ PushCandidate(c)
    \/ ClearCandidates
    \/ MatcherAnalyze

SpecMatcherBuilder == InitMatcherBuilder /\ [][NextMatcherBuilder]_vars


\* ================================================================== claims
\* What the assessor's profile call returns for a candidate (the call reads
\* the configuration only).
ProfileFor(c) == AssessorProfile(assessor, Query, c).ret

\* The aggregate resemblance of a candidate, as a number.
AggregateOf(c) == ToF64(ProfileFor(c).resemblance)

\* Some dimension of the profile reports a perfect match.
SomeDimensionPerfect(profile) ==
    \E i \in 1 .. Len(profile.dimensions) :
        profile.dimensions[i].resemblance = Perfect

\* The positions of the input whose candidate the call takes for viable.
ViablePositions ==
    {i \in 1 .. Len(candidates) : ProfileViable(ProfileFor(candidates[i]), assessor.floor)}

\* C1: viable(query, candidate) is true exactly when some dimension of the
\* profile reports a perfect match or the aggregate resemblance is >= the
\* floor.  (Violated by the code: Profile::viable compares the aggregate
\* with the floor and nothing else.)
C1_ViableIffPerfectOrFloor ==
    op = "viable" =>
        (ret <=> (\/ SomeDimensionPerfect(ProfileFor(candidates[1]))
                  \/ RatGe(AggregateOf(candidates[1]), assessor.floor)))

\* The positions of the input whose candidate is viable as the contract
\* words it: some dimension reports a perfect match, or the aggregate
\* resemblance reaches the floor.
PerfectOrFloorPositions ==
    {i \in 1 .. Len(candidates) :
        \/ SomeDimensionPerfect(ProfileFor(candidates[i]))
        \/ RatGe(AggregateOf(candidates[i]), assessor.floor)}

\* The answer champion owes for a set of positions taken as the viable ones:
\* None when there is none, and otherwise the profile at the first position
\* of maximal aggregate resemblance.
FirstMaximumOver(positions) ==
    IF positions = {} THEN ret = None
    ELSE \E i \in positions :
            /\ ret = Some(ProfileFor(candidates[i]))
            /\ \A j \in positions :
                  RatGe(AggregateOf(candidates[i]), AggregateOf(candidates[j]))
            /\ \A j \in positions :
                  j < i => RatGt(AggregateOf(candidates[i]), AggregateOf(candidates[j]))

\* C2: champion returns None when no candidate is viable, and otherwise the
\* profile of the viable candidate of maximal aggregate resemblance that
\* comes first in the input, a candidate being viable when some dimension
\* reports a perfect match or its aggregate reaches the floor.  (Violated by
\* the code: champion filters with Profile::viable, which leaves out a
\* candidate with a perfect dimension and an aggregate below the floor.)
C2_ChampionFirstMaximum ==
    op = "champion" => FirstMaximumOver(PerfectOrFloorPositions)

\* With the viability the code computes (aggregate >= floor and nothing
\* else) champion does return the first maximum.
ChampionFirstMaximumAsCoded ==
    op = "champion" => FirstMaximumOver(ViablePositions)

\* champion answered None for a single candidate that has a perfect
\* dimension and an aggregate below the floor.
ChampionMissesPerfect ==
    /\ op = "champion" /\ ret = None /\ Len(candidates) = 1
    /\ SomeDimensionPerfect(ProfileFor(candidates[1]))


\* What the matcher's analysis gives for a candidate, as a MatchResult.
MatchFor(c) == MatchResultOf(Analyze(matcher, Query, c))

\* The positions of the input whose score reaches the matcher's threshold.
MatchPositions ==
    {i \in 1 .. Len(candidates) :
        RatGe(MatchFor(candidates[i]).score, matcher.config.threshold)}

\* C3: find_best_match returns, among the candidates whose score reaches the
\* threshold, the first in input order of those with the maximal score, the
\* candidate that heads find_matches for the same inputs.  (Violated by the
\* code: Iterator::max_by keeps the last of several maximal elements.)
C3_FindBestMatchFirstMaximum ==
    op = "find_best_match" =>
        IF MatchPositions = {} THEN ret = None
        ELSE /\ \E i \in MatchPositions :
                  /\ ret = Some(MatchFor(candidates[i]))
                  /\ \A j \in MatchPositions :
                        RatGe(MatchFor(candidates[i]).score, MatchFor(candidates[j]).score)
                  /\ \A j \in MatchPositions :
                        j < i => RatGt(MatchFor(candidates[i]).score,
                                       MatchFor(candidates[j]).score)
             /\ ret = Some(MatcherFindMatches(matcher, Query, candidates, 0)[1])

\* The entries of a shortlist are the profiles of their candidates, and a
\* candidate has as many entries as it has occurrences among the positions.
ExactlyThePositions(positions) ==
    /\ \A k \in 1 .. Len(ret) : ret[k] = ProfileFor(ret[k].candidate)
    /\ \A c \in Candidates :
          Cardinality({k \in 1 .. Len(ret) : ret[k].candidate = c})
            = Cardinality({i \in positions : candidates[i] = c})

\* C4: shortlist holds the profiles of exactly the viable input candidates:
\* every entry has a perfect dimension or reaches the floor, and a candidate
\* has as many entries as it has viable occurrences in the input, viable
\* meaning perfect or at the floor.  (Violated by the code: shortlist filters
\* with Profile::viable, which leaves out a candidate with a perfect
\* dimension and an aggregate below the floor.)
C4_ShortlistExactlyViable ==
    op = "shortlist" =>
        /\ \A k \in 1 .. Len(ret) :
              \/ SomeDimensionPerfect(ret[k])
              \/ RatGe(ToF64(ret[k].resemblance), assessor.floor)
        /\ ExactlyThePositions(PerfectOrFloorPositions)

\* With the viability the code computes every entry reaches the floor and
\* no candidate that reaches it is left out.
ShortlistExactlyViableAsCoded ==
    op = "shortlist" =>
        /\ \A k \in 1 .. Len(ret) : RatGe(ToF64(ret[k].resemblance), assessor.floor)
        /\ ExactlyThePositions(ViablePositions)

\* shortlist left out a candidate that has a perfect dimension.
ShortlistMissesPerfect ==
    /\ op = "shortlist" /\ ret = <<>> /\ Len(candidates) = 1
    /\ SomeDimensionPerfect(ProfileFor(candidates[1]))

\* The profiles of the viable input candidates, in input order.
ViableProfiles ==
    LET IsViable(p) == ProfileViable(p, assessor.floor)
    IN  SelectSeq([i \in 1 .. Len(candidates) |-> ProfileFor(candidates[i])], IsViable)

\* C5: shortlist is in non-increasing order of aggregate resemblance, and
\* entries of equal resemblance keep the relative order their candidates had
\* in the input.
C5_ShortlistSortedStable ==
    op = "shortlist" =>
        /\ \A k \in 1 .. Len(ret) - 1 :
              RatGe(ToF64(ret[k].resemblance), ToF64(ret[k + 1].resemblance))
        /\ \A f \in {ToF64(ret[k].resemblance) : k \in 1 .. Len(ret)} :
              LET HasF(p) == ToF64(p.resemblance) = f
              IN  SelectSeq(ret, HasF) = SelectSeq(ViableProfiles, HasF)

\* C5 witness: a shortlist of two different candidates of equal, positive
\* resemblance, in input order.
C5_Witness ==
    /\ op = "shortlist" /\ Len(ret) = 2 /\ Len(candidates) = 2
    /\ ret[1].resemblance = ret[2].resemblance
    /\ RatGt(ToF64(ret[1].resemblance), Zero)
    /\ ret[1].candidate # ret[2].candidate
    /\ ret[1].candidate = candidates[1]

\* C6: a profile returned by champion has the candidate and the resemblance
\* of the first element of shortlist for the same inputs.
C6_ChampionHeadsShortlist ==
    (op = "champion" /\ ret # None) =>
        LET shortlist == AssessorShortlist(assessor, Query, candidates).ret
        IN  /\ shortlist # <<>>
            /\ ret.val.candidate = shortlist[1].candidate
            /\ ret.val.resemblance = shortlist[1].resemblance

\* C6 witness: both input candidates are viable and the champion is the
\* second, which the shortlist moved to its head.
C6_Witness ==
    /\ op = "champion" /\ ret # None /\ Len(candidates) = 2
    /\ ViablePositions = {1, 2}
    /\ RatGt(AggregateOf(candidates[1]), Zero)
    /\ ret.val.candidate = candidates[2]
    /\ ret.val.candidate # candidates[1]


\* C7: the floor is inclusive.  A candidate whose aggregate resemblance
\* equals the floor is viable, is on the shortlist, and is the champion when
\* no candidate scores above the floor.
C7_FloorInclusive ==
    /\ (op = "viable" /\ AggregateOf(candidates[1]) = assessor.floor) => ret = TRUE
    /\ op = "shortlist" =>
          \A i \in 1 .. Len(candidates) :
              AggregateOf(candidates[i]) = assessor.floor =>
                  \E k \in 1 .. Len(ret) : ret[k].candidate = candidates[i]
    /\ (/\ op = "champion"
        /\ \E i \in 1 .. Len(candidates) : AggregateOf(candidates[i]) = assessor.floor
        /\ \A i \in 1 .. Len(candidates) :
              RatGe(assessor.floor, AggregateOf(candidates[i])))
          => (ret # None /\ ToF64(ret.val.resemblance) = assessor.floor)

\* C7 witness: the scenario of the spec.  Two dimensions of different
\* weights both score the floor, which is strictly between 0 and 1, and
\* viable answers true.
C7_Witness ==
    /\ op = "viable" /\ ret = TRUE
    /\ Len(assessor.dimensions) = 2
    /\ assessor.dimensions[1].weight # assessor.dimensions[2].weight
    /\ RatGt(assessor.floor, Zero) /\ RatGt(One, assessor.floor)
    /\ \A i \in 1 .. 2 :
          /\ assessor.dimensions[i].weight > 0
          /\ ToF64(ProfileFor(candidates[1]).dimensions[i].resemblance) = assessor.floor
    /\ AggregateOf(candidates[1]) = assessor.floor


\* C8: constrain returns the first min(cap, n) entries of the shortlist of
\* the same inputs, in order, n being the shortlist's length; cap = 0 gives
\* the empty list.
C8_ConstrainIsPrefix ==
    op = "constrain" =>
        LET shortlist == AssessorShortlist(assessor, Query, candidates).ret
        IN  /\ Len(ret) = Min(cap, Len(shortlist))
            /\ \A k \in 1 .. Len(ret) : ret[k] = shortlist[k]
            /\ cap = 0 => ret = <<>>

\* C8 witness: constrain cut a shortlist of two entries of different
\* resemblance to its first.
C8_Witness ==
    /\ op = "constrain" /\ cap = 1 /\ Len(ret) = 1
    /\ Len(AssessorShortlist(assessor, Query, candidates).ret) = 2
    /\ RatGt(ToF64(ret[1].resemblance), AggregateOf(candidates[1]))

\* C9: with an empty candidate list champion returns None, shortlist and
\* constrain (for every cap) return the empty list, and find_best_match of
\* Matcher and of MultiMatcher return None.
C9_EmptyCandidates ==
    candidates = <<>> =>
        /\ op = "champion" => ret = None
        /\ op = "shortlist" => ret = <<>>
        /\ op = "constrain" => ret = <<>>
        /\ op = "find_best_match" => ret = None
        /\ op = "multi_find_best_match" => ret = None

\* C9 witness: constrain with a positive cap ran on the empty list, for an
\* assessor without dimensions whose floor is 0.
C9_Witness ==
    /\ candidates = <<>> /\ op = "constrain" /\ cap > 0
    /\ assessor.dimensions = <<>> /\ assessor.floor = Zero

\* The assessor with a resembler that cannot fail in place of the one of
\* dimension i.
WithSucceeding(i) == [assessor EXCEPT !.dimensions[i].resembler = "exact"]

\* C10: a dimension whose resembler fails ends the profile call with
\* resemblance Disparity, contribution 0 and the error recorded; the other
\* dimensions of the profile are what they are when that resembler succeeds.
C10_FailureIsolated ==
    op = "profile" =>
        \A i \in 1 .. Len(assessor.dimensions) :
            Resemble(assessor.dimensions[i].resembler, Query, candidates[1]).tag = "Err" =>
                /\ ret.dimensions[i].resemblance = Disparity
                /\ ret.dimensions[i].contribution = Zero
                /\ ret.dimensions[i].error
                     = Some(Resemble(assessor.dimensions[i].resembler, Query,
                                     candidates[1]).err)
                /\ \A j \in 1 .. Len(assessor.dimensions) :
                      j # i =>
                          ret.dimensions[j]
                            = AssessorProfile(WithSucceeding(i), Query,
                                              candidates[1]).ret.dimensions[j]

\* C10 witness: the first dimension failed and the one after it scored a
\* perfect match with a positive contribution.
C10_Witness ==
    /\ op = "profile" /\ Len(ret.dimensions) = 2
    /\ ret.dimensions[1].error # None
    /\ ret.dimensions[2].resemblance = Perfect
    /\ RatGt(ret.dimensions[2].contribution, Zero)

\* What the resembler of dimension i of the assessor answers for a candidate.
AnswerOf(i, c) == Resemble(assessor.dimensions[i].resembler, Query, c)

\* Some dimension of the assessor fails on the candidate.
SomeDimensionFails(c) ==
    \E i \in 1 .. Len(assessor.dimensions) : AnswerOf(i, c).tag = "Err"

\* The weighted mean the contract asks of a profile: a dimension that fails
\* adds 0 to the dividend and its weight to the divisor.
ExpectedAggregate(c) ==
    WeightedMean(
        RatSum([i \in 1 .. Len(assessor.dimensions) |->
                   IF AnswerOf(i, c).tag = "Ok"
                   THEN RatMul(ToF64(AnswerOf(i, c).val),
                               Rat(assessor.dimensions[i].weight, 1))
                   ELSE Zero]),
        RatSum([i \in 1 .. Len(assessor.dimensions) |->
                   Rat(assessor.dimensions[i].weight, 1)]))

\* C11: a dimension failure never aborts evaluation.  profile returns a
\* profile with every dimension in it, the failed ones adding 0 to the
\* aggregate while their weights count in the divisor; shortlist and
\* champion go on to rank the candidates behind one on which a dimension
\* failed.
C11_FailureNeverAborts ==
    /\ op = "profile" =>
          /\ Len(ret.dimensions) = Len(assessor.dimensions)
          /\ ToF64(ret.resemblance) = ExpectedAggregate(candidates[1])
    /\ op = "shortlist" =>
          \A i, j \in 1 .. Len(candidates) :
              (/\ i < j /\ SomeDimensionFails(candidates[i])
               /\ RatGe(ExpectedAggregate(candidates[j]), assessor.floor))
                  => \E k \in 1 .. Len(ret) : ret[k] = ProfileFor(candidates[j])
    /\ op = "champion" =>
          \A i, j \in 1 .. Len(candidates) :
              (/\ i < j /\ SomeDimensionFails(candidates[i])
               /\ RatGe(ExpectedAggregate(candidates[j]), assessor.floor))
                  => /\ ret # None
                     /\ RatGe(ToF64(ret.val.resemblance), ExpectedAggregate(candidates[j]))

\* C11 witness: a profile of two dimensions of positive weight, the first of
\* which failed, with a positive aggregate below the second dimension's
\* score.
C11_Witness ==
    /\ op = "profile" /\ Len(ret.dimensions) = 2
    /\ ret.dimensions[1].error # None /\ ret.dimensions[1].weight > 0
    /\ ret.dimensions[2].error = None /\ ret.dimensions[2].weight > 0
    /\ RatGt(ToF64(ret.resemblance), Zero)
    /\ RatGt(ToF64(ret.dimensions[2].resemblance), ToF64(ret.resemblance))

\* The errors the failing dimensions of the assessor raise for a candidate,
\* in dimension order.
RaisedFor(c) ==
    LET Failed(i) == AnswerOf(i, c).tag = "Err"
        failed == SelectSeq([i \in 1 .. Len(assessor.dimensions) |-> i], Failed)
    IN  [k \in 1 .. Len(failed) |-> AnswerOf(failed[k], c).err]

\* C12: after a sequence of profile calls (one call, or the calls
\* all_profiles makes in a row) the assessor's error list holds exactly the
\* failures of the dimensions in the most recent call, in dimension order,
\* whatever it held before; has_errors is false when that call had no
\* failing dimension.
C12_ErrorsOfMostRecentCall ==
    /\ op = "profile" =>
          /\ GetErrors(assessor) = RaisedFor(candidates[1])
          /\ HasErrors(assessor) <=> SomeDimensionFails(candidates[1])
    /\ (op = "all_profiles" /\ candidates # <<>>) =>
          /\ GetErrors(assessor) = RaisedFor(candidates[Len(candidates)])
          /\ HasErrors(assessor) <=> SomeDimensionFails(candidates[Len(candidates)])

\* C12 witness: two profile calls in a row; the first raised two different
\* errors, the second none, and the error list is empty.
C12_Witness ==
    /\ op = "all_profiles" /\ Len(candidates) = 2
    /\ Len(RaisedFor(candidates[1])) = 2
    /\ RaisedFor(candidates[1])[1] # RaisedFor(candidates[1])[2]
    /\ ~SomeDimensionFails(candidates[2])
    /\ ~HasErrors(assessor)
\* The weighted arithmetic mean of scores rs under weights ws (none of them
\* negative): 0 when the weights sum to 0.
Mean(rs, ws) ==
    IF RatSum(ws) = Zero THEN Zero
    ELSE RatDiv(RatSum([i \in 1 .. Len(rs) |-> RatMul(rs[i], ws[i])]), RatSum(ws))

\* The weights of a list of dimensions or metrics, as numbers.
WeightsOf(items) == [i \in 1 .. Len(items) |-> Rat(items[i].weight, 1)]

\* What the leaves of the blend's dimensions answer for a candidate, as
\* numbers (when none of them fails).
BlendAnswers(c) ==
    [i \in 1 .. Len(blend.dimensions) |->
        ToF64(Resemble(blend.dimensions[i].resembler, Query, c).val)]

\* C13: the additive scheme is the weighted mean, sum of resemblance_i *
\* weight_i over the sum of the weights, and 0 when the weights sum to 0:
\* in Assessor::profile (over the dimensions' resemblances, 0 for a failed
\* one), in a Blend built with weighted, and in the Matcher's overall score.
C13_AdditiveIsWeightedMean ==
    /\ op = "profile" =>
          ToF64(ret.resemblance)
            = Mean([i \in 1 .. Len(ret.dimensions) |-> ToF64(ret.dimensions[i].resemblance)],
                   WeightsOf(assessor.dimensions))
    /\ (op = "blend_resemblance" /\ blend.blender = "Weighted" /\ ret.tag = "Ok") =>
          ToF64(ret.val) = Mean(BlendAnswers(candidates[1]), WeightsOf(blend.dimensions))
    /\ op = "analyze" =>
          ret.score
            = Mean([i \in 1 .. Len(matcher.metrics) |->
                       Calculate(matcher.metrics[i].metric, Query, candidates[1])],
                   WeightsOf(matcher.metrics))

\* C13 witness: a weighted Blend of two dimensions of different positive
\* weights and different scores, whose result is neither score nor their
\* plain average.
C13_Witness ==
    /\ op = "blend_resemblance" /\ blend.blender = "Weighted" /\ ret.tag = "Ok"
    /\ Len(blend.dimensions) = 2
    /\ blend.dimensions[1].weight > 0 /\ blend.dimensions[2].weight > 0
    /\ blend.dimensions[1].weight # blend.dimensions[2].weight
    /\ ret.val.tag = "Partial"
    /\ ToF64(ret.val) # Mean(BlendAnswers(candidates[1]), <<One, One>>)

\* C14: with an empty dimension set every scheme yields Disparity: a
\* profile of an assessor without dimensions, and a Blend built with
\* weighted, minimum, maximum or product over no dimension.  (Violated by
\* the code: the fold of Minimum starts at f64::INFINITY and the product of
\* no factor is 1.0, and Blend::resemblance makes Perfect of both.)
C14_EmptyDimensionsDisparity ==
    /\ (op = "profile" /\ assessor.dimensions = <<>>) => ret.resemblance = Disparity
    /\ (op = "blend_resemblance" /\ blend.dimensions = <<>>) => ret = Ok(Disparity)

\* C15: the result of the Minimum scheme is <= the resemblance of every
\* dimension and the result of the Maximum scheme is >= it; neither
\* depends on the weights (it is the result of the same Blend with every
\* weight set to 1).
C15_MinimumMaximumBound ==
    (op = "blend_resemblance" /\ ret.tag = "Ok") =>
        /\ blend.blender = "Minimum" =>
              \A i \in 1 .. Len(blend.dimensions) :
                  RatGe(BlendAnswers(candidates[1])[i], ToF64(ret.val))
        /\ blend.blender = "Maximum" =>
              \A i \in 1 .. Len(blend.dimensions) :
                  RatGe(ToF64(ret.val), BlendAnswers(candidates[1])[i])
        /\ blend.blender \in {"Minimum", "Maximum"} =>
              ret = BlendResemblance(
                        [blend EXCEPT !.dimensions =
                            [i \in 1 .. Len(blend.dimensions) |->
                                [blend.dimensions[i] EXCEPT !.weight = 1]]],
                        Query, candidates[1])

\* C15 witness: a Maximum Blend of two dimensions of different weights whose
\* scores differ; the result is the greater score, a partial one, and it is
\* the score of the dimension of lesser weight.
C15_Witness ==
    /\ op = "blend_resemblance" /\ blend.blender = "Maximum" /\ ret.tag = "Ok"
    /\ Len(blend.dimensions) = 2
    /\ blend.dimensions[1].weight < blend.dimensions[2].weight
    /\ ret.val.tag = "Partial"
    /\ ToF64(ret.val) = BlendAnswers(candidates[1])[1]
    /\ RatGt(ToF64(ret.val), BlendAnswers(candidates[1])[2])

\* C16: the Multiplicative scheme is the weighted geometric mean; when
\* every dimension has the same resemblance r (and the weights do not sum
\* to 0) the result is r.  (Violated by the code: Blender::Product is the
\* plain product of the resemblances, whatever the weights.)
C16_ProductIsGeometricMean ==
    (/\ op = "blend_resemblance" /\ blend.blender = "Product" /\ ret.tag = "Ok"
     /\ blend.dimensions # <<>>
     /\ RatGt(RatSum(WeightsOf(blend.dimensions)), Zero)
     /\ \A i \in 1 .. Len(blend.dimensions) :
           BlendAnswers(candidates[1])[i] = BlendAnswers(candidates[1])[1])
        => ToF64(ret.val) = BlendAnswers(candidates[1])[1]

\* A Product Blend of two dimensions of weight 1 that both score 1/2
\* answered 1/4.
ProductOfHalves ==
    /\ op = "blend_resemblance" /\ blend.blender = "Product"
    /\ Len(blend.dimensions) = 2
    /\ ret = Ok(Partial(Rat(1, 4)))
    /\ \A i \in 1 .. 2 : /\ blend.dimensions[i].weight = 1
                          /\ BlendAnswers(candidates[1])[i] = Rat(1, 2)

\* C17: a profile is flagged perfect exactly when at least one of its
\* dimensions reports a perfect match, whatever the weights, the other
\* dimensions and the aggregate; likewise an analysis is Exact exactly when
\* at least one metric reports an exact match.  (Violated by the code: a
\* Profile has no perfect flag; its resemblance is Perfect only when the
\* aggregate is 1.0.)
C17_PerfectIsOrOverDimensions ==
    /\ op = "profile" => (ret.resemblance = Perfect <=> SomeDimensionPerfect(ret))
    /\ op = "analyze" =>
          (ret.match_type = Exact
             <=> \E i \in 1 .. Len(matcher.metrics) :
                    IsExactMatch(matcher.metrics[i].metric, Query, candidates[1]))

\* The Matcher's part of C17 does hold.
AnalysisExactIsOrOverMetrics ==
    op = "analyze" =>
        (ret.match_type = Exact
           <=> \E i \in 1 .. Len(matcher.metrics) :
                  RatGe(Calculate(matcher.metrics[i].metric, Query, candidates[1]),
                        Rat(9999, 10000)))

\* A profile with a perfect dimension of positive weight whose resemblance
\* is not Perfect.
PerfectDimensionPartialProfile ==
    /\ op = "profile" /\ ret.resemblance # Perfect
    /\ \E i \in 1 .. Len(ret.dimensions) :
          ret.dimensions[i].resemblance = Perfect /\ ret.dimensions[i].weight > 0
\* The assessor as its builder calls left it: every dimension as
\* Dimension::new made it, and no error.
AsConstructed(self) ==
    [dimensions |-> [i \in 1 .. Len(self.dimensions) |->
                        DimensionNew(self.dimensions[i].resembler,
                                     self.dimensions[i].weight)],
     floor |-> self.floor, errors |-> <<>>]

\* C18: profile is idempotent.  Whatever calls came before, a profile call
\* returns what the first call on the assessor as constructed returns for
\* the same query and candidate, aggregate and dimensions alike: so do the
\* calls all_profiles makes in a row, on the same candidate or on others.
C18_ProfileIdempotent ==
    /\ op = "profile" =>
          ret = AssessorProfile(AsConstructed(assessor), Query, candidates[1]).ret
    /\ op = "all_profiles" =>
          /\ Len(ret) = Len(candidates)
          /\ \A i \in 1 .. Len(candidates) :
                ret[i] = AssessorProfile(AsConstructed(assessor), Query,
                                         candidates[i]).ret

\* C18 witness: two calls in a row on the same candidate, on which one
\* dimension fails and the other scores, returned the same profile.
C18_Witness ==
    /\ op = "all_profiles" /\ Len(candidates) = 2
    /\ candidates[1] = candidates[2]
    /\ ret[1] = ret[2]
    /\ ProfileHasErrors(ret[1])
    /\ RatGt(ToF64(ret[1].resemblance), Zero)

\* C19: no assessment or ranking operation changes the configuration of the
\* assessor.  Across every call the dimension list (order, resemblers,
\* weights, stored resemblance, contribution and error) and the floor stay
\* as they were; the error list is the only field that changes.
C19_ConfigurationUnchanged ==
    [][assessor # None =>
          /\ assessor'.dimensions = assessor.dimensions
          /\ assessor'.floor = assessor.floor]_vars

\* C19 witness: error_profiles ran, returned a profile with a failed
\* dimension and left an error on the error list, over an assessor whose
\* dimensions are as constructed.
C19_Witness ==
    /\ op = "error_profiles" /\ ret # <<>>
    /\ HasErrors(assessor)
    /\ ret[1].dimensions # assessor.dimensions
    /\ assessor.dimensions = AsConstructed(assessor).dimensions

\* A number in [0,1].
InUnit(f) == RatGe(f, Zero) /\ RatGe(One, f)

\* C20: in every constructed assessor and every produced profile each
\* dimension's weight is >= 0, and each dimension's resemblance and the
\* aggregate resemblance are numbers in [0,1].  (Violated by the code:
\* Assessor::dimension takes any f64 for a weight.)
C20_WeightsAndScoresInRange ==
    assessor # None =>
        /\ \A i \in 1 .. Len(assessor.dimensions) : assessor.dimensions[i].weight >= 0
        /\ op = "profile" =>
              /\ InUnit(ToF64(ret.resemblance))
              /\ \A i \in 1 .. Len(ret.dimensions) :
                    /\ ret.dimensions[i].weight >= 0
                    /\ InUnit(ToF64(ret.dimensions[i].resemblance))

\* A profile whose aggregate resemblance is above 1: a perfect dimension of
\* weight 2 beside a dimension of weight -1 that scores 0.
AggregateAboveOne ==
    /\ op = "profile" /\ Len(ret.dimensions) = 2
    /\ ret.dimensions[1].weight = 2 /\ ret.dimensions[1].resemblance = Perfect
    /\ ret.dimensions[2].weight = -1 /\ ret.dimensions[2].resemblance = Disparity
    /\ ret.resemblance = Partial(Rat(2, 1))

\* With the weights the contract allows (none negative) every resemblance
\* of a profile is in [0,1].
ScoresInRangeForAllowedWeights ==
    op = "profile" =>
        /\ InUnit(ToF64(ret.resemblance))
        /\ \A i \in 1 .. Len(ret.dimensions) :
              InUnit(ToF64(ret.dimensions[i].resemblance))
\* What sub-matcher i of the MultiMatcher finds best among the candidates.
SubBest(i) == MatcherFindBestMatch(multi.matchers[i], Query, candidates)

\* The sub-matchers whose best match has a score >= the union threshold.
Eligible ==
    {i \in 1 .. Len(multi.matchers) :
        SubBest(i) # None /\ RatGe(SubBest(i).val.score, multi.threshold)}

\* The sub-matchers whose best match has a score > the union threshold.
AboveUnionThreshold ==
    {i \in 1 .. Len(multi.matchers) :
        SubBest(i) # None /\ RatGt(SubBest(i).val.score, multi.threshold)}

\* ret is the best match of one of the sub-matchers in the set, of the
\* highest score among them; None when the set is empty.
HighestOf(subs) ==
    IF subs = {} THEN ret = None
    ELSE /\ \E i \in subs : ret = SubBest(i)
         /\ \A j \in subs : RatGe(ret.val.score, SubBest(j).val.score)

\* C21: MultiMatcher::find_best_match returns the highest-scoring of the
\* sub-matchers' best matches whose score is >= the union threshold, and
\* None only when no sub-matcher's best match reaches it.  (Violated by the
\* code: best_score starts at the threshold and is compared with >, so a
\* best match that scores exactly the threshold is dropped.)
C21_MultiBestClearsThreshold ==
    op = "multi_find_best_match" => HighestOf(Eligible)

\* What the code does: the highest of the best matches strictly above the
\* union threshold.
MultiBestAsCoded ==
    op = "multi_find_best_match" => HighestOf(AboveUnionThreshold)

\* A sub-matcher's best match scores the union threshold 1/2 and
\* find_best_match answers None.
MultiMissesAtThreshold ==
    /\ op = "multi_find_best_match" /\ ret = None
    /\ multi.threshold = Rat(1, 2) /\ Len(multi.matchers) = 1
    /\ SubBest(1) # None /\ SubBest(1).val.score = Rat(1, 2)

\* Sub-matcher i takes some candidate for an exact match of the query.
YieldsExact(i) ==
    \E k \in 1 .. Len(candidates) :
        Analyze(multi.matchers[i], Query, candidates[k]).match_type = Exact

\* C22: when one of two sub-matchers yields a perfect (exact) match and the
\* other does not, find_best_match returns the perfect match, whatever the
\* thresholds.  (Violated by the code: a perfect match scores 1.0, which is
\* not > a union threshold of 1.0; nothing lets an exact match pass a
\* threshold.)
C22_PerfectMatchWins ==
    (/\ op = "multi_find_best_match" /\ Len(multi.matchers) = 2
     /\ \E a, b \in 1 .. 2 : a # b /\ YieldsExact(a) /\ ~YieldsExact(b))
        => (ret # None /\ ret.val.match_type = Exact)

\* The first sub-matcher yields an exact match of score 1, the second
\* none, the union threshold is 1 and find_best_match answers None.
PerfectMatchMissed ==
    /\ op = "multi_find_best_match" /\ ret = None
    /\ Len(multi.matchers) = 2 /\ multi.threshold = One
    /\ YieldsExact(1) /\ ~YieldsExact(2)
    /\ SubBest(1) # None /\ SubBest(1).val.score = One
    /\ SubBest(1).val.match_type = Exact
\* The sub-matchers' matches, concatenated and sorted by descending score.
SortedConcatenation == SortedByScore(ExtendedMatches(multi.matchers, Query, candidates))

\* The entries of s whose candidate does not occur earlier in s.
RECURSIVE FirstOccurrences(_, _)
FirstOccurrences(kept, s) ==
    IF s = <<>> THEN kept
    ELSE FirstOccurrences(
            IF \E i \in 1 .. Len(kept) : kept[i].candidate = Head(s).candidate
            THEN kept ELSE Append(kept, Head(s)),
            Tail(s))

\* C23: the list MultiMatcher::find_matches returns has no two entries of
\* the same candidate; unlimited, it is the sorted concatenation of the
\* sub-matchers' results reduced to each candidate's first occurrence.
\* (Violated by the code: dedup_by drops only an entry that follows an
\* entry of the same candidate immediately.)
C23_NoDuplicateCandidates ==
    op = "multi_find_matches" =>
        /\ \A i, j \in 1 .. Len(ret) : i # j => ret[i].candidate # ret[j].candidate
        /\ cap = 0 => ret = FirstOccurrences(<<>>, SortedConcatenation)

\* Two sub-matchers, two candidates: the unlimited result holds the first
\* candidate at positions 1 and 3 and the second at positions 2 and 4.
DuplicateCandidateKept ==
    /\ op = "multi_find_matches" /\ cap = 0
    /\ Len(multi.matchers) = 2 /\ Len(candidates) = 2 /\ Len(ret) = 4
    /\ candidates[1] # candidates[2]
    /\ ret[1].candidate = candidates[1] /\ ret[3].candidate = candidates[1]
    /\ ret[2].candidate = candidates[2] /\ ret[4].candidate = candidates[2]

\* Some sub-matcher matches candidates[k].
MatchedBySome(k) ==
    \E i \in 1 .. Len(multi.matchers) :
        Analyze(multi.matchers[i], Query, candidates[k]).is_match

\* C24: MultiMatcher::find_matches returns its entries in non-increasing
\* score order; with limit > 0 it returns the first limit entries of the
\* unlimited result (all of them when there are fewer); with limit = 0 it
\* returns every deduplicated entry, so every candidate some sub-matcher
\* matches occurs in it.
C24_MultiMatchesOrderedAndLimited ==
    op = "multi_find_matches" =>
        /\ \A i \in 1 .. Len(ret) - 1 : RatGe(ret[i].score, ret[i + 1].score)
        /\ cap > 0 =>
              /\ Len(ret) <= cap
              /\ ret = SubSeq(MultiFindMatches(multi, Query, candidates, 0), 1,
                              Min(cap, Len(MultiFindMatches(multi, Query, candidates, 0))))
        /\ cap = 0 =>
              /\ ret = DedupBy(<<>>, SortedConcatenation)
              /\ \A k \in 1 .. Len(candidates) :
                    MatchedBySome(k) => \E j \in 1 .. Len(ret) :
                                            ret[j].candidate = candidates[k]

\* A limit of 1 cuts a result of two entries of different scores down to
\* the higher one; and an unlimited call returns two entries.
C24_Witness ==
    \/ /\ op = "multi_find_matches" /\ cap = 1 /\ Len(ret) = 1
       /\ Len(MultiFindMatches(multi, Query, candidates, 0)) = 2
       /\ RatGt(ret[1].score, MultiFindMatches(multi, Query, candidates, 0)[2].score)
    \/ /\ op = "multi_find_matches" /\ cap = 0 /\ Len(ret) = 2
       /\ RatGt(ret[1].score, ret[2].score)
\* The score and the exact-match report of the composite's i-th child for
\* the pair the composite was called with.
ChildScore(i) == Calculate(composite.metrics[i], Query, candidates[1])
ChildExact(i) == IsExactMatch(composite.metrics[i], Query, candidates[1])
Children == 1 .. Len(composite.metrics)

\* The composite answered the call op under the strategy tagged tag.
Answered(tag, call) == composite # None /\ composite.strategy.tag = tag /\ op = call

\* C25: a composite with the Maximum strategy scores the highest of its
\* children's scores (0 without children), and is_exact_match and
\* match_type report it exact whenever some child reports an exact match.
\* (Violated by the code: the composite keeps the default is_exact_match,
\* score >= 0.9999, and never asks its children, while match_type does.)
C25_MaximumHighestAndExact ==
    /\ Answered("Maximum", "calculate") =>
            IF Children = {} THEN ret = Zero
            ELSE /\ \E i \in Children : ret = ChildScore(i)
                 /\ \A j \in Children : RatGe(ret, ChildScore(j))
    /\ Answered("Maximum", "is_exact_match") =>
            ((\E i \in Children : ChildExact(i)) => ret = TRUE)
    /\ Answered("Maximum", "match_type") =>
            ((\E i \in Children : ChildExact(i)) => ret = Some(Exact))

\* The same for children that keep the default is_exact_match.
MaximumExactForDefaultChildren ==
    (\A i \in Children : composite.metrics[i] \in MetricKinds)
        => C25_MaximumHighestAndExact

\* The only child reports an exact match and scores 0: is_exact_match of
\* the Maximum composite answers false (match_type would answer Exact).
MaximumMissesExactChild ==
    /\ Answered("Maximum", "is_exact_match") /\ ret = FALSE
    /\ Len(composite.metrics) = 1 /\ ChildExact(1) /\ ChildScore(1) = Zero
    /\ CompositeMatchType(composite, Query, candidates[1]) = Some(Exact)

\* The children whose score reaches the Fallback threshold.
Reaching == {i \in Children : RatGe(ChildScore(i), composite.strategy.threshold)}

\* C26: a composite with Fallback(threshold) returns the score of the first
\* child whose score is >= threshold, the last child's score when none
\* reaches it; a composite without children returns 0 (under any strategy).
C26_FallbackFirstReaching ==
    /\ (composite # None /\ op = "calculate" /\ Children = {}) => ret = Zero
    /\ (Answered("Fallback", "calculate") /\ Children # {}) =>
            IF Reaching # {}
            THEN ret = ChildScore(CHOOSE i \in Reaching : \A j \in Reaching : i <= j)
            ELSE ret = ChildScore(Len(composite.metrics))

\* No child of two reaches the threshold and the second child's score,
\* which differs from the first's, is returned.
C26_Witness ==
    /\ Answered("Fallback", "calculate") /\ Len(composite.metrics) = 2
    /\ Reaching = {} /\ ChildScore(1) # ChildScore(2) /\ ret = ChildScore(2)

\* The weight of child i under Weighted(vector): the vector's i-th entry,
\* 1 beyond the vector.
VectorWeight(i) ==
    IF i <= Len(composite.strategy.weights)
    THEN Rat(composite.strategy.weights[i], 1) ELSE One

\* C27: a composite with Weighted(vector) returns sum(score_i * w_i) /
\* sum(w_i) over its children, w_i being the vector's i-th entry and 1.0
\* beyond the vector (entries beyond the children are ignored); 0 when the
\* weights sum to 0 or less.
C27_WeightedByVector ==
    Answered("Weighted", "calculate") =>
        IF RatGt(RatSum([i \in Children |-> VectorWeight(i)]), Zero)
        THEN ret = RatDiv(RatSum([i \in Children |->
                                    RatMul(ChildScore(i), VectorWeight(i))]),
                          RatSum([i \in Children |-> VectorWeight(i)]))
        ELSE ret = Zero

\* Weighted([2.0]) over two children scoring 1/2 and 0: the second child
\* has the weight 1 and the result is (1 + 0) / 3 = 1/3.
C27_Witness ==
    /\ Answered("Weighted", "calculate") /\ composite.strategy.weights = <<2>>
    /\ Len(composite.metrics) = 2
    /\ ChildScore(1) = Rat(1, 2) /\ ChildScore(2) = Zero /\ ret = Rat(1, 3)

\* Weighted([1.0, -1.0]) over two children: the weights sum to 0 and the
\* result is 0 although the first child scores 1.
WeightedZeroSum ==
    /\ Answered("Weighted", "calculate") /\ composite.strategy.weights = <<1, -1>>
    /\ Len(composite.metrics) = 2 /\ ChildScore(1) = One /\ ret = Zero
\* The children of a nested resembler, in child order.
ChildrenOf(name) ==
    IF "blend" \in DOMAIN NestedResemblers[name]
    THEN [k \in 1 .. Len(NestedResemblers[name].blend.dimensions) |->
             NestedResemblers[name].blend.dimensions[k].resembler]
    ELSE NestedResemblers[name].union.resemblers

\* The positions of the children of a nested resembler that fail on c.
FailingChildren(name, c) ==
    {k \in 1 .. Len(ChildrenOf(name)) :
        Resemble(ChildrenOf(name)[k], Query, c).tag = "Err"}

\* The error of the first failing child, in child order.
FirstChildError(name, c) ==
    Resemble(ChildrenOf(name)[CHOOSE k \in FailingChildren(name, c) :
                                 \A m \in FailingChildren(name, c) : k <= m],
             Query, c).err

\* Dimension i of the assessor is a Blend or a Union with a child that
\* fails on c.
NestedFails(i, c) ==
    /\ assessor.dimensions[i].resembler \in NestedKinds
    /\ FailingChildren(assessor.dimensions[i].resembler, c) # {}

\* C28: a Blend or Union used as a dimension fails as a whole when a child
\* fails, with the error of the first failing child in child order (the
\* children behind it have no part in the answer); the enclosing profile
\* records that one error for the dimension, scores it 0, and evaluates the
\* sibling dimensions.
C28_NestedFailsWithFirstError ==
    op = "profile" =>
        \A i \in 1 .. Len(assessor.dimensions) :
            NestedFails(i, candidates[1]) =>
                /\ AnswerOf(i, candidates[1])
                     = Err(FirstChildError(assessor.dimensions[i].resembler,
                                           candidates[1]))
                /\ ret.dimensions[i].error
                     = Some(FirstChildError(assessor.dimensions[i].resembler,
                                            candidates[1]))
                /\ ret.dimensions[i].resemblance = Disparity
                /\ ret.dimensions[i].contribution = Zero
                /\ GetErrors(assessor) = RaisedFor(candidates[1])
                /\ Len(GetErrors(assessor))
                     = Cardinality({j \in 1 .. Len(assessor.dimensions) :
                                       AnswerOf(j, candidates[1]).tag = "Err"})
                /\ \A j \in 1 .. Len(assessor.dimensions) :
                      (j # i /\ AnswerOf(j, candidates[1]).tag = "Ok") =>
                          /\ ret.dimensions[j].error = None
                          /\ ret.dimensions[j].resemblance = AnswerOf(j, candidates[1]).val

\* A Union of an exact, a strict and a graded resembler beside an exact
\* sibling, on a candidate the strict and the graded child both fail on:
\* the one error recorded is the strict child's, the sibling is Perfect and
\* the aggregate is positive.
C28_Witness ==
    /\ op = "profile" /\ Len(assessor.dimensions) = 2
    /\ assessor.dimensions[1].resembler = "union(exact,strict,graded)"
    /\ assessor.dimensions[2].resembler = "exact"
    /\ FailingChildren("union(exact,strict,graded)", candidates[1]) = {2, 3}
    /\ GetErrors(assessor) = <<"rejected">>
    /\ ret.dimensions[1].error = Some("rejected")
    /\ ret.dimensions[2].resemblance = Perfect
    /\ RatGt(ToF64(ret.resemblance), Zero)

\* The same for a Blend whose failing children are the first two: the
\* error is the first child's.
BlendFirstOfTwoErrors ==
    /\ op = "profile" /\ Len(assessor.dimensions) = 1
    /\ assessor.dimensions[1].resembler = "blend(graded,strict)"
    /\ FailingChildren("blend(graded,strict)", candidates[1]) = {1, 2}
    /\ GetErrors(assessor) = <<"malformed">>
\* The errors a returned profile carries on its dimensions, in dimension
\* order.
ErrorsIn(profile) ==
    LET Failed(d) == d.error # None
        failed == SelectSeq(profile.dimensions, Failed)
    IN  [k \in 1 .. Len(failed) |-> failed[k].error.val]

\* The operations that profile every candidate of a list.
ListOperations == {"champion", "shortlist", "constrain", "all_profiles", "error_profiles"}

\* C29: after champion, shortlist, constrain, all_profiles or
\* error_profiles over a non-empty list, the assessor's error list holds
\* exactly the failures raised for the last candidate, so that has_errors
\* tells of that candidate only; the failures of the earlier candidates are
\* on the dimensions of the returned profiles.
C29_ErrorsOfLastCandidate ==
    /\ (op \in ListOperations /\ candidates # <<>>) =>
          /\ GetErrors(assessor) = RaisedFor(candidates[Len(candidates)])
          /\ HasErrors(assessor) <=> SomeDimensionFails(candidates[Len(candidates)])
    /\ op = "all_profiles" =>
          \A k \in 1 .. Len(candidates) : ErrorsIn(ret[k]) = RaisedFor(candidates[k])

\* champion over two candidates: a dimension failed on the first, which
\* is the champion all the same, none failed on the second, and has_errors
\* is false.
C29_Witness ==
    /\ op = "champion" /\ Len(candidates) = 2
    /\ SomeDimensionFails(candidates[1]) /\ ~SomeDimensionFails(candidates[2])
    /\ ~HasErrors(assessor)
    /\ ret # None /\ ret.val.candidate = candidates[1] /\ ErrorsIn(ret.val) # <<>>
\* s occurs within t, in order.
IsSubSeq(s, t) ==
    \E f \in [1 .. Len(s) -> 1 .. Len(t)] :
        /\ \A i, j \in 1 .. Len(s) : i < j => f[i] < f[j]
        /\ \A i \in 1 .. Len(s) : t[f[i]] = s[i]

\* C30: after build, every metric passed to metric(), grouped or not, is
\* among the built matcher's metrics with its weight, in call order, and
\* has its score among those of an analysis.  (Violated by the code: a
\* metric passed while a group is current goes to metric_groups, which
\* build never reads.)
C30_BuilderKeepsEveryMetric ==
    (builder = None /\ matcher # None) =>
        /\ IsSubSeq(passed, matcher.metrics)
        /\ op = "analyze" =>
              \A i \in 1 .. Len(passed) :
                  \E k \in 1 .. Len(ret.metric_scores) :
                      /\ ret.metric_scores[k].id = passed[i].metric
                      /\ ret.metric_scores[k].weight = passed[i].weight

\* What the code does keep: the metrics passed while no group was current
\* are the built matcher's metrics, and none is lost when no group was
\* ever begun.
BuilderKeepsUngroupedMetrics ==
    /\ (builder = None /\ matcher # None) => IsSubSeq(matcher.metrics, passed)
    /\ (builder # None /\ builder.metric_groups = <<>>) => builder.matcher.metrics = passed

\* begin_group, metric(exact, 2), end_group, metric(graded, 1), build: the
\* built matcher has the graded metric only, and an analysis scores a
\* candidate the exact metric takes for equal by the graded metric alone.
GroupedMetricLost ==
    /\ builder = None /\ matcher # None /\ op = "analyze"
    /\ passed = <<WeightedMetricNew("exact", 2), WeightedMetricNew("graded", 1)>>
    /\ matcher.metrics = <<WeightedMetricNew("graded", 1)>>
    /\ Len(ret.metric_scores) = 1

====
